---- MODULE Spec2Model ----
(***************************************************************************)
(* Model of hectorgabucio/n26-scraper.                                     *)
(*                                                                         *)
(*   Spec     the statement parser (pdf_parser.go): parseBalanceFromText   *)
(*            and parseTransactionsFromText applied to bounded texts, one  *)
(*            step per iteration of their line loops.                      *)
(*   SpecRun  a sequence of program runs (main.go): cookie lookup,         *)
(*            endpoint call, login, sendDiscordNotification against the    *)
(*            statement store.                                             *)
(*                                                                         *)
(* Texts are TLA+ strings; TLC evaluates Len, SubSeq, \o, Head and Tail on *)
(* them, one element per character.                                        *)
(***************************************************************************)
EXTENDS Integers, Sequences, FiniteSets, TLC

VARIABLES
    \* ---- parser (pdf_parser.go)
    fn,            \* the function applied to text
    text,          \* the input text
    lines,         \* strings.Split(text, "\n")
    i,             \* loop index over lines (0-based, as in the source)
    tx,            \* the block built for the last amount line
    transactions,  \* the result slice of parseTransactionsFromText
    balance,       \* AccountBalance.Balance returned by parseBalanceFromText
    err,           \* the error returned ("" for nil)
    pc,            \* position of the parser
    firstResult,   \* history: what the first parse of text returned, <<>> before
    \* ---- program runs (main.go)
    rpc,           \* position of main / sendDiscordNotification
    run,           \* number of runs started
    cookieStored,  \* cookies table holds a row
    cookieHeader,  \* main's cookieHeader is non-empty
    loggedIn,      \* performLoginAndGetCookie succeeded in this run
    downloaded,    \* callEndpointWithCookie returned PDF data in this run
    endpointOutcome, \* how main classified the endpoint call ("" when not made)
    webhookURL,    \* WEBHOOK_URL is set in this run
    pdf,           \* the statement document of this run
    parserOpen,    \* a PDFParser is open (fitz document not closed)
    closeCount,    \* calls of parser.Close in this run
    accountBalance,\* sendDiscordNotification's accountBalance
    txIdx,         \* position of the filter loop over transactions
    newStatements, \* sendDiscordNotification's newStatements (keys)
    notifiedStore, \* statement keys with notified = true in table statements
    sent,          \* keys of the notification delivered in this run (2xx)
    delivered,     \* history: per key, number of delivered notifications holding it
    storeFailed,   \* history: a statement-store call has failed
    checkFailed,   \* history: positions of the transactions of this run whose
                   \* IsNotified call returned an error
    result,        \* how the run ended
    \* ---- PDFParser.ExtractText (pdf_parser.go)
    doc,           \* the pages of p.doc: what doc.Text(i) returns for each
    pageIdx,       \* loop index over the pages (0-based, as in the source)
    textBuilder,   \* contents of textBuilder
    pagesRead,     \* history: the indices doc.Text was called with, in order
    extractedText, \* the string returned by ExtractText
    extractErr,    \* the error returned by ExtractText ("" for nil)
    epc,           \* position of ExtractText
    \* ---- waitFor2FAConfirmation (main.go)
    wpc,           \* position of waitFor2FAConfirmation
    now,           \* seconds since startTime
    ctxLeft,       \* seconds the parent context had left at startTime
    tickerC,       \* ticker.C holds a tick
    pageURL,       \* the URL the browser is at
    currentURL,    \* the URL read by the last successful poll ("" before)
    seenConfirmed, \* history: a poll has read a URL without "/login"
    waitErr,       \* the error returned ("" for nil)
    \* ---- callEndpointWithCookie and main's branch on its error (main.go)
    cpc,           \* position of the call
    endUnix,       \* time.Now().Unix() when the request is built
    response,      \* what the HTTP exchange produces
    callErr,       \* err.Error() of the returned error ("" for nil)
    branch,        \* what main does with the result
    \* ---- waitForNetworkIdle (main.go)
    ipc,           \* position of the polling loop
    nowMs,         \* milliseconds since startTime
    maxConnections,\* the parameter maxConnections
    activeRequests,\* the keys of the map activeRequests
    idleSince,     \* idleSince, in milliseconds since startTime
    ctxCancelled,  \* ctx.Done() is closed
    idleErr,       \* the error returned ("" for nil)
    overSinceIdle  \* history: activeRequests held more than maxConnections
                   \* ids at some moment after idleSince was last set

pvars == <<fn, text, lines, i, tx, transactions, balance, err, pc,
           firstResult>>
rvars == <<rpc, run, cookieStored, cookieHeader, loggedIn, downloaded,
           endpointOutcome, webhookURL, pdf,
           parserOpen, closeCount, accountBalance, txIdx, newStatements,
           notifiedStore, sent, delivered, storeFailed, checkFailed, result>>
evars == <<doc, pageIdx, textBuilder, pagesRead, extractedText, extractErr,
           epc>>
cvars == <<cpc, endUnix, response, callErr, branch>>
ivars == <<ipc, nowMs, maxConnections, activeRequests, idleSince,
           ctxCancelled, idleErr, overSinceIdle>>
bvars == <<wpc, now, ctxLeft, tickerC, pageURL, currentURL, seenConfirmed,
           waitErr>>
vars == <<pvars, rvars, evars, bvars, cvars, ivars>>

-----------------------------------------------------------------------------
(* Bounds *)

\* texts have at most MaxLines lines
MaxLines == 4

\* spellings of a marker phrase have at most MaxUpper upper-case letters
MaxUpper == 2

\* the program is run at most MaxRuns times
MaxRuns == 3

\* a statement document lists at most MaxTx transactions
MaxTx == 2

\* a text that is parsed twice has at most MaxTwiceLines lines
MaxTwiceLines == 3

\* a document has at most MaxPages pages
MaxPages == 3

-----------------------------------------------------------------------------
(* Go strings *)

\* the character of s at position k (1-based), "" outside s
Ch(s, k) == IF k >= 1 /\ k <= Len(s) THEN SubSeq(s, k, k) ELSE ""

\* U+20AC, the currency sign of the patterns and of the statement texts. The
\* model writes it as one character that is no letter, digit, sign, separator
\* or space; ByteWidth counts the three bytes of its UTF-8 encoding.
Euro == "~"

\* len(s): the length in bytes of the UTF-8 encoding
TwoByte == {"á", "é", "í", "ó", "ú", "ñ", "Á", "É", "Í", "Ó", "Ú", "Ñ"}
ByteWidth(c) == IF c = Euro THEN 3 ELSE IF c \in TwoByte THEN 2 ELSE 1

RECURSIVE GoLen(_)
GoLen(s) == IF s = "" THEN 0 ELSE ByteWidth(Head(s)) + GoLen(Tail(s))

\* unicode.IsSpace, restricted to the characters of the alphabet
IsSpace(c) == c \in {" ", "\t", "\r", "\n", "\f"}

RECURSIVE TrimLeft(_)
TrimLeft(s) == IF s # "" /\ IsSpace(Head(s)) THEN TrimLeft(Tail(s)) ELSE s

RECURSIVE TrimRight(_)
TrimRight(s) ==
    IF s # "" /\ IsSpace(Ch(s, Len(s)))
    THEN TrimRight(SubSeq(s, 1, Len(s) - 1)) ELSE s

TrimSpace(s) == TrimRight(TrimLeft(s))

HasSuffix(s, suf) ==
    Len(s) >= Len(suf) /\ SubSeq(s, Len(s) - Len(suf) + 1, Len(s)) = suf

TrimSuffix(s, suf) ==
    IF HasSuffix(s, suf) THEN SubSeq(s, 1, Len(s) - Len(suf)) ELSE s

Contains(s, sub) ==
    \E k \in 1..(Len(s) - Len(sub) + 1) : SubSeq(s, k, k + Len(sub) - 1) = sub

UpperCase == "ABCDEFGHIJKLMNOPQRSTUVWXYZÁÉÍÓÚÑ"
LowerCase == "abcdefghijklmnopqrstuvwxyzáéíóúñ"

LowerCh(c) ==
    IF \E k \in 1..Len(UpperCase) : Ch(UpperCase, k) = c
    THEN Ch(LowerCase, CHOOSE k \in 1..Len(UpperCase) : Ch(UpperCase, k) = c)
    ELSE c

RECURSIVE ToLower(_)
ToLower(s) == IF s = "" THEN "" ELSE LowerCh(Head(s)) \o ToLower(Tail(s))

\* strings.Split(s, "\n"): the pieces between the newlines, never empty,
\* Split("") = <<"">>
Split(s) ==
    LET nl == {k \in 1..Len(s) : Ch(s, k) = "\n"}
        \* position of the n-th newline; 0 and Len(s) + 1 bound the text
        at(n) == IF n = 0 THEN 0
                 ELSE IF n > Cardinality(nl) THEN Len(s) + 1
                 ELSE CHOOSE k \in nl : Cardinality({m \in nl : m < k}) = n - 1
    IN  [n \in 1..(Cardinality(nl) + 1) |-> SubSeq(s, at(n - 1) + 1, at(n) - 1)]

\* the text whose lines are ls (strings.Join(ls, "\n"))
RECURSIVE Join(_)
Join(ls) ==
    IF Len(ls) = 0 THEN ""
    ELSE IF Len(ls) = 1 THEN ls[1]
    ELSE ls[1] \o "\n" \o Join(Tail(ls))

-----------------------------------------------------------------------------
(* Regular expressions of pdf_parser.go *)

IsDigit(c) == c \in {"0", "1", "2", "3", "4", "5", "6", "7", "8", "9"}

\* regexp \s
IsReSpace(c) == c \in {" ", "\t", "\r", "\n", "\f"}

\* first position >= p of s that holds no digit
RECURSIVE DigitRunEnd(_, _)
DigitRunEnd(s, p) ==
    IF p <= Len(s) /\ IsDigit(Ch(s, p)) THEN DigitRunEnd(s, p + 1) ELSE p

\* first position >= p of s that holds no \s
RECURSIVE SpaceRunEnd(_, _)
SpaceRunEnd(s, p) ==
    IF p <= Len(s) /\ IsReSpace(Ch(s, p)) THEN SpaceRunEnd(s, p + 1) ELSE p

\* datePattern (\d{2}\.\d{2}\.\d{4}) matches s at position p
DateAt(s, p) ==
    /\ p + 9 <= Len(s)
    /\ \A k \in {0, 1, 3, 4, 6, 7, 8, 9} : IsDigit(Ch(s, p + k))
    /\ Ch(s, p + 2) = "."
    /\ Ch(s, p + 5) = "."

DateMatch(s) == \E p \in 1..Len(s) : DateAt(s, p)

\* datePattern.FindAllString(s, -1)[0]
FirstDate(s) ==
    LET p == CHOOSE q \in 1..Len(s) :
                 DateAt(s, q) /\ \A r \in 1..(q - 1) : ~DateAt(s, r)
    IN  SubSeq(s, p, p + 9)

\* ([+-]?\d+[.,]\d{2})\s*€? anchored at p: the position after the match, 0 if
\* there is none.  seps is the set of fractional separators.
NumberEnd(s, p, seps) ==
    LET q == IF Ch(s, p) \in {"+", "-"} THEN p + 1 ELSE p
        d == DigitRunEnd(s, q)
    IN  IF /\ d > q
           /\ Ch(s, d) \in seps
           /\ d + 2 <= Len(s)
           /\ IsDigit(Ch(s, d + 1))
           /\ IsDigit(Ch(s, d + 2))
        THEN d + 3 ELSE 0

AmountEnd(s, p) ==
    LET e == NumberEnd(s, p, {".", ","})
        w == SpaceRunEnd(s, e)
    IN  IF e = 0 THEN 0
        ELSE IF Ch(s, w) = Euro THEN w + 1 ELSE w

\* amountPattern.MatchString(s)
AmountMatch(s) == \E p \in 1..Len(s) : AmountEnd(s, p) > 0

\* amountPattern.FindAllString(s, -1), searching from position p
RECURSIVE FindAllAmounts(_, _)
FindAllAmounts(s, p) ==
    IF p > Len(s) THEN <<>>
    ELSE LET e == AmountEnd(s, p)
         IN  IF e > 0 THEN <<SubSeq(s, p, e - 1)>> \o FindAllAmounts(s, e)
             ELSE FindAllAmounts(s, p + 1)

\* IsAmountLine without the end anchor $
IsAmountLine_NoEndAnchor(line) == NumberEnd(line, 1, {","}) > 0

\* regexp.MatchString(`^[+-]?\d+,\d{2}\s*€?\s*$`, line)
IsAmountLine(line) ==
    LET e == NumberEnd(line, 1, {","})
        w == SpaceRunEnd(line, e)
        x == IF Ch(line, w) = Euro THEN w + 1 ELSE w
    IN  e > 0 /\ SpaceRunEnd(line, x) = Len(line) + 1

\* pageNumberPattern ^\d+\s*/\s*\d+$
IsPageNumber(s) ==
    LET d == DigitRunEnd(s, 1)
        w == SpaceRunEnd(s, d)
        v == SpaceRunEnd(s, w + 1)
        e == DigitRunEnd(s, v)
    IN  d > 1 /\ Ch(s, w) = "/" /\ e > v /\ e = Len(s) + 1

-----------------------------------------------------------------------------
(* parseTransactionsFromText *)

DateWindow == 10
PartnerWindow == 8
StandaloneDateLen == 20
MinPartnerLen == 3

max(a, b) == IF a > b THEN a ELSE b

\* tx := &Transaction{Amount: amount}
NewTx(amount) ==
    [BookingDate |-> "", ValueDate |-> "", PartnerName |-> "", Amount |-> amount]

\* StripAmount leaving the currency symbol in place
StripAmount_KeepSymbol(line) == TrimSpace(line)

\* amount := TrimSpace(TrimSuffix(TrimSpace(line), "€"))
StripAmount(line) == TrimSpace(TrimSuffix(TrimSpace(line), Euro))

\* DateStep taking the value date from every line that holds a date
DateStep_AnyDateIsValueDate(t, checkLine) ==
    LET t1 == IF DateMatch(checkLine)
              THEN [t EXCEPT !.ValueDate = FirstDate(checkLine)]
              ELSE t
    IN  IF /\ t1.BookingDate = ""
           /\ ~Contains(checkLine, "Fecha de valor")
           /\ DateMatch(checkLine)
           /\ GoLen(checkLine) < StandaloneDateLen
        THEN [t1 EXCEPT !.BookingDate = FirstDate(checkLine)]
        ELSE t1

\* DateStep letting every standalone date line replace the booking date
DateStep_LastBookingWins(t, checkLine) ==
    LET t1 == IF Contains(checkLine, "Fecha de valor") /\ DateMatch(checkLine)
              THEN [t EXCEPT !.ValueDate = FirstDate(checkLine)]
              ELSE t
    IN  IF /\ ~Contains(checkLine, "Fecha de valor")
           /\ DateMatch(checkLine)
           /\ GoLen(checkLine) < StandaloneDateLen
        THEN [t1 EXCEPT !.BookingDate = FirstDate(checkLine),
                        !.ValueDate = IF @ = "" THEN FirstDate(checkLine) ELSE @]
        ELSE t1

\* DateStep keeping a value date that is already set
DateStep_FirstValueDateWins(t, checkLine) ==
    LET t1 == IF /\ Contains(checkLine, "Fecha de valor") /\ DateMatch(checkLine)
                 /\ t.ValueDate = ""
              THEN [t EXCEPT !.ValueDate = FirstDate(checkLine)]
              ELSE t
    IN  IF /\ t1.BookingDate = ""
           /\ ~Contains(checkLine, "Fecha de valor")
           /\ DateMatch(checkLine)
           /\ GoLen(checkLine) < StandaloneDateLen
        THEN [t1 EXCEPT !.BookingDate = FirstDate(checkLine),
                        !.ValueDate = IF @ = "" THEN FirstDate(checkLine) ELSE @]
        ELSE t1

\* body of the date loop for one checkLine
DateStep(t, checkLine) ==
    LET t1 == IF Contains(checkLine, "Fecha de valor") /\ DateMatch(checkLine)
              THEN [t EXCEPT !.ValueDate = FirstDate(checkLine)]
              ELSE t
    IN  IF /\ t1.BookingDate = ""
           /\ ~Contains(checkLine, "Fecha de valor")
           /\ DateMatch(checkLine)
           /\ GoLen(checkLine) < StandaloneDateLen
        THEN [t1 EXCEPT !.BookingDate = FirstDate(checkLine),
                        !.ValueDate = IF @ = "" THEN FirstDate(checkLine) ELSE @]
        ELSE t1

\* for j := from; j < to; j++ { date loop body }
RECURSIVE DateScan(_, _, _, _)
DateScan(ls, j, to, t) ==
    IF j >= to THEN t
    ELSE DateScan(ls, j + 1, to, DateStep(t, TrimSpace(ls[j + 1])))

SkipWords ==
    {"Fecha", "Descripción", "Cantidad", "Mastercard", "IBAN", "BIC", "Emitido",
     "Transferencias", "Enviada", "Actividad", "salientes"}

\* the `continue` condition of the partner loop
PartnerSkip(checkLine) ==
    \/ GoLen(checkLine) < MinPartnerLen
    \/ DateMatch(checkLine)
    \/ AmountMatch(checkLine)
    \/ \E w \in SkipWords : Contains(checkLine, w)

\* PartnerStep replacing on greater-or-equal length
PartnerStep_LastWins(t, checkLine) ==
    IF PartnerSkip(checkLine) \/ GoLen(checkLine) <= 2 THEN t
    ELSE IF t.PartnerName = "" \/ GoLen(checkLine) >= GoLen(t.PartnerName)
         THEN [t EXCEPT !.PartnerName = checkLine]
         ELSE t

\* body of the partner loop for one checkLine
PartnerStep(t, checkLine) ==
    IF PartnerSkip(checkLine) \/ GoLen(checkLine) <= 2 THEN t
    ELSE IF t.PartnerName = "" \/ GoLen(checkLine) > GoLen(t.PartnerName)
         THEN [t EXCEPT !.PartnerName = checkLine]
         ELSE t

\* for j := from; j < to; j++ { partner loop body }
RECURSIVE PartnerScan(_, _, _, _)
PartnerScan(ls, j, to, t) ==
    IF j >= to THEN t
    ELSE PartnerScan(ls, j + 1, to, PartnerStep(t, TrimSpace(ls[j + 1])))

RealTxSkipPatterns ==
    {"Saldo previo", "Saldo", "Balance", "Emitido", "Descripción",
     "Fecha de reserva", "Cantidad", "Actividad de la cuenta"}

\* isRealTransaction comparing the skip patterns in their written case
isRealTransaction_CaseSensitive(t) ==
    LET partnerName == TrimSpace(t.PartnerName)
    IN  /\ partnerName # ""
        /\ ~IsPageNumber(partnerName)
        /\ \A pat \in RealTxSkipPatterns : ~Contains(partnerName, pat)
        /\ GoLen(partnerName) >= MinPartnerLen

\* isRealTransaction without the page-number filter
isRealTransaction_NoPageFilter(t) ==
    LET partnerName == TrimSpace(t.PartnerName)
        partnerLower == ToLower(partnerName)
    IN  /\ partnerName # ""
        /\ \A pat \in RealTxSkipPatterns : ~Contains(partnerLower, ToLower(pat))
        /\ GoLen(partnerName) >= MinPartnerLen

isRealTransaction(t) ==
    LET partnerName == TrimSpace(t.PartnerName)
        partnerLower == ToLower(partnerName)
    IN  /\ partnerName # ""
        /\ ~IsPageNumber(partnerName)
        /\ \A pat \in RealTxSkipPatterns : ~Contains(partnerLower, ToLower(pat))
        /\ GoLen(partnerName) >= MinPartnerLen

\* BuildTx with the partner loop starting at the first line of the text
BuildTx_WholeText(ls, idx) ==
    LET t0 == NewTx(StripAmount(TrimSpace(ls[idx + 1])))
        t1 == DateScan(ls, max(0, idx - DateWindow), idx, t0)
    IN  PartnerScan(ls, 0, idx - 1, t1)

\* BuildTx with the partner loop running up to the amount line (j < i)
BuildTx_ThroughPreviousLine(ls, idx) ==
    LET t0 == NewTx(StripAmount(TrimSpace(ls[idx + 1])))
        t1 == DateScan(ls, max(0, idx - DateWindow), idx, t0)
    IN  PartnerScan(ls, max(0, idx - PartnerWindow), idx, t1)

\* the block of the amount line at index idx, after both backward loops
BuildTx(ls, idx) ==
    LET t0 == NewTx(StripAmount(TrimSpace(ls[idx + 1])))
        t1 == DateScan(ls, max(0, idx - DateWindow), idx, t0)
    IN  PartnerScan(ls, max(0, idx - PartnerWindow), idx - 1, t1)

\* the condition under which the block is appended
Accepted(t) ==
    /\ t.BookingDate # ""
    /\ t.Amount # ""
    /\ Contains(t.Amount, ",")
    /\ isRealTransaction(t)

-----------------------------------------------------------------------------
(* parseBalanceFromText *)

ErrBalanceNotFound == "balance not found in PDF"

\* HasMarkerEs accepting any line that mentions a saldo
HasMarkerEs_AnySaldo(line) == Contains(ToLower(line), "saldo")

\* HasMarkerEs matching the phrase in any letter case
HasMarkerEs_IgnoreCase(line) == Contains(ToLower(line), "tu nuevo saldo")

\* strings.Contains(line, "Tu nuevo saldo") || strings.Contains(line, "tu nuevo saldo")
HasMarkerEs(line) ==
    Contains(line, "Tu nuevo saldo") \/ Contains(line, "tu nuevo saldo")

\* strings.Contains(line, "Your new balance") || strings.Contains(line, "your new balance")
HasMarkerEn(line) ==
    Contains(line, "Your new balance") \/ Contains(line, "your new balance")

\* PickAmount taking the first match
PickAmount_First(amounts) == amounts[1]

\* amounts[len(amounts)-1]
PickAmount(amounts) == amounts[Len(amounts)]

\* balance := TrimSpace(TrimSuffix(TrimSpace(m), "€"))
StripBalance(m) == TrimSpace(TrimSuffix(TrimSpace(m), Euro))

\* the body of a marker block at line idx: <<balance>> when it returns, <<>>
\* when it falls through
MarkerBlock(ls, idx) ==
    IF idx + 1 < Len(ls)
    THEN LET nextLine == TrimSpace(ls[idx + 2])
             amounts == FindAllAmounts(nextLine, 1)
         IN  IF Len(amounts) > 0 THEN <<StripBalance(PickAmount(amounts))>>
             ELSE <<>>
    ELSE <<>>

\* one iteration of the balance loop at line idx
BalanceAt(ls, idx) ==
    LET line == TrimSpace(ls[idx + 1])
        es == IF HasMarkerEs(line) THEN MarkerBlock(ls, idx) ELSE <<>>
        en == IF HasMarkerEn(line) THEN MarkerBlock(ls, idx) ELSE <<>>
    IN  IF es # <<>> THEN es ELSE en

-----------------------------------------------------------------------------
(* Input texts *)

SeqsUpTo(S, n) == UNION {[1..k -> S] : k \in 0..n}

\* lines of a statement: counterparties, a booking date, a value date, an amount
CoreLines ==
    {"SUPERMARKET XYZ", "05.10.2025", "Fecha de valor 06.10.2025", "-12,34" \o Euro}

\* lines that appear at most once in a text
OddLines ==
    {"", "Bar", "SUPERMERCADO AB", "Fecha de valor 05.10.2025", "04.10.2025",
     "12.50", "7,00 EUR",
     "x -2,50" \o Euro, "+3,00 " \o Euro, "1 / 3", "Saldo previo", "IBAN ES12",
     "Pago el 04.10.2025 en tienda"}

TxLineSeqs ==
    LET core == SeqsUpTo(CoreLines, MaxLines)
    IN  core \cup
        {[ls EXCEPT ![k] = o] : <<ls, k, o>> \in
            {c \in core \X (1..MaxLines) \X OddLines : c[2] <= Len(c[1])}}

TxTexts == {Join(ls) : ls \in TxLineSeqs}

\* texts longer than both backward windows: an amount on the last line, and
\* chosen lines just outside, first in and last in each window
LongLen == DateWindow + 2

LongPartner == "SUPERMARKET XYZ MADRID"

\* the lines a long text can hold at position k (1-based); "" elsewhere
LongChoices(k) ==
    IF k = LongLen THEN {"-12,34" \o Euro}
    ELSE IF k \in {LongLen - DateWindow - 1, LongLen - DateWindow}
         THEN {"", "04.10.2025", "Fecha de valor 06.10.2025"}
    ELSE IF k \in {LongLen - PartnerWindow - 1, LongLen - 1}
         THEN {"", LongPartner}
    ELSE IF k = LongLen - PartnerWindow THEN {"", "Bar"}
    ELSE IF k = LongLen - 2 THEN {"", "SUPERMARKET XYZ", "SALDO ANTERIOR"}
    ELSE IF k = LongLen - 5 THEN {"", "05.10.2025"}
    ELSE {""}

\* every sequence of k lines with its lines drawn from LongChoices
RECURSIVE LongPrefixes(_)
LongPrefixes(k) ==
    IF k = 0 THEN {<<>>}
    ELSE {Append(ls, l) : ls \in LongPrefixes(k - 1), l \in LongChoices(k)}

LongLineSeqs == LongPrefixes(LongLen)

LongTexts == {Join(ls) : ls \in LongLineSeqs}

BalLines ==
    {"Tu nuevo saldo", "See your new balance:", "Ref 12 1.234,56" \o Euro,
     "1,00 2,50 " \o Euro, "Saldo previo", ""}

BalTexts == {Join(ls) : ls \in SeqsUpTo(BalLines, MaxLines)}

UpperCh(c) ==
    IF \E k \in 1..Len(LowerCase) : Ch(LowerCase, k) = c
    THEN Ch(UpperCase, CHOOSE k \in 1..Len(LowerCase) : Ch(LowerCase, k) = c)
    ELSE c

\* phrase with the characters at the positions U in upper case
RECURSIVE WithUpper(_, _, _)
WithUpper(phrase, U, k) ==
    IF k > Len(phrase) THEN ""
    ELSE (IF k \in U THEN UpperCh(Ch(phrase, k)) ELSE Ch(phrase, k))
         \o WithUpper(phrase, U, k + 1)

LetterPositions(phrase) == {k \in 1..Len(phrase) : Ch(phrase, k) # " "}

\* the spellings of phrase with at most MaxUpper upper-case letters, and the
\* spelling in capitals
CaseVariants(phrase) ==
    {WithUpper(phrase, U, 1) :
        U \in {V \in SUBSET LetterPositions(phrase) :
                  Cardinality(V) <= MaxUpper \/ V = LetterPositions(phrase)}}

\* a marker in any spelling, followed by a line that holds the balance
VariantTexts ==
    {Join(<<v, "-3.20 " \o Euro>>) :
        v \in CaseVariants("tu nuevo saldo") \cup CaseVariants("your new balance")}

Calls ==
    {[fn |-> "parseTransactionsFromText", text |-> t] : t \in TxTexts \cup LongTexts} \cup
    {[fn |-> "parseBalanceFromText", text |-> t] : t \in BalTexts \cup VariantTexts}

-----------------------------------------------------------------------------
(* The parser as a state machine *)

NoTx == NewTx("")

\* generateStatementKey(date, partner, amount)
generateStatementKey(date, partner, amount) ==
    date \o "|" \o partner \o "|" \o amount

\* the transactions a statement document can list
StatementTxs ==
    {[BookingDate |-> "05.10.2025", ValueDate |-> "05.10.2025",
      PartnerName |-> "SUPERMARKET XYZ", Amount |-> "-12,34"],
     [BookingDate |-> "04.10.2025", ValueDate |-> "06.10.2025",
      PartnerName |-> "Bar", Amount |-> "+3,00"]}

KeyOf(t) == generateStatementKey(t.BookingDate, t.PartnerName, t.Amount)

Keys == {KeyOf(t) : t \in StatementTxs}

\* the documents the endpoint can return: whether fitz opens it, the
\* transactions and the balance its text parses to ("" when none is found)
Pdfs ==
    {[opens |-> FALSE, txs |-> <<>>, balance |-> ""]} \cup
    {[opens |-> TRUE, txs |-> ts, balance |-> b] :
        ts \in SeqsUpTo(StatementTxs, MaxTx), b \in {"", "1.234,56"}}

NoPdf == [opens |-> FALSE, txs |-> <<>>, balance |-> ""]

RunIdle ==
    /\ rpc = "idle" /\ run = 0 /\ cookieStored = FALSE /\ cookieHeader = FALSE
    /\ loggedIn = FALSE /\ downloaded = FALSE /\ webhookURL = FALSE
    /\ endpointOutcome = ""
    /\ pdf = NoPdf /\ parserOpen = FALSE /\ closeCount = 0
    /\ accountBalance = "" /\ txIdx = 0 /\ newStatements = <<>>
    /\ notifiedStore = {} /\ sent = <<>> /\ delivered = [k \in Keys |-> 0]
    /\ storeFailed = FALSE /\ checkFailed = {} /\ result = ""

ExtractIdle ==
    /\ doc = <<>> /\ pageIdx = 0 /\ textBuilder = "" /\ pagesRead = <<>>
    /\ extractedText = "" /\ extractErr = "" /\ epc = "idle"

WaitIdle ==
    /\ wpc = "idle" /\ now = 0 /\ ctxLeft = 0 /\ tickerC = FALSE
    /\ pageURL = "" /\ currentURL = "" /\ seenConfirmed = FALSE
    /\ waitErr = ""

\* no HTTP exchange
NoResponse == [fail |-> "", status |-> 0, body |-> ""]

CallIdle ==
    /\ cpc = "idle" /\ endUnix = 0 /\ response = NoResponse
    /\ callErr = "" /\ branch = ""

IdleIdle ==
    /\ ipc = "idle" /\ nowMs = 0 /\ maxConnections = 0 /\ activeRequests = {}
    /\ idleSince = 0 /\ ctxCancelled = FALSE
    /\ idleErr = "" /\ overSinceIdle = FALSE

ParserIdle ==
    /\ fn = "" /\ text = "" /\ lines = <<>> /\ i = 0 /\ tx = NoTx
    /\ transactions = <<>> /\ balance = "" /\ err = "" /\ pc = "idle"
    /\ firstResult = <<>>

Init ==
    /\ \E c \in Calls : fn = c.fn /\ text = c.text
    /\ lines = <<>> /\ i = 0 /\ tx = NoTx /\ transactions = <<>>
    /\ balance = "" /\ err = "" /\ pc = "call"
    /\ firstResult = <<>>
    /\ RunIdle /\ ExtractIdle /\ WaitIdle /\ CallIdle /\ IdleIdle

\* lines := strings.Split(text, "\n")
Enter ==
    /\ pc = "call"
    /\ lines' = Split(text)
    /\ pc' = IF fn = "parseTransactionsFromText" THEN "tx_loop" ELSE "bal_loop"
    /\ UNCHANGED <<fn, text, i, tx, transactions, balance, err, firstResult, rvars, evars, bvars, cvars, ivars>>

\* an iteration for a line that is empty or no amount line
TxSkip ==
    /\ pc = "tx_loop" /\ i < Len(lines)
    /\ LET line == TrimSpace(lines[i + 1])
       IN  line = "" \/ ~IsAmountLine(line)
    /\ i' = i + 1
    /\ tx' = NoTx
    /\ UNCHANGED <<fn, text, lines, transactions, balance, err, pc, firstResult, rvars, evars, bvars, cvars, ivars>>

\* TxAmount putting the accepted block in front of the result
TxAmount_Prepend ==
    /\ pc = "tx_loop" /\ i < Len(lines)
    /\ LET line == TrimSpace(lines[i + 1])
       IN  line # "" /\ IsAmountLine(line)
    /\ LET t == BuildTx(lines, i)
           t2 == IF t.ValueDate = "" THEN [t EXCEPT !.ValueDate = t.BookingDate]
                 ELSE t
       IN  IF Accepted(t)
           THEN tx' = t2 /\ transactions' = <<t2>> \o transactions
           ELSE tx' = t /\ transactions' = transactions
    /\ i' = i + 1
    /\ UNCHANGED <<fn, text, lines, balance, err, pc, firstResult, rvars, evars, bvars, cvars, ivars>>

\* an iteration for an amount line: the block is built and appended if accepted
TxAmount ==
    /\ pc = "tx_loop" /\ i < Len(lines)
    /\ LET line == TrimSpace(lines[i + 1])
       IN  line # "" /\ IsAmountLine(line)
    /\ LET t == BuildTx(lines, i)
           t2 == IF t.ValueDate = "" THEN [t EXCEPT !.ValueDate = t.BookingDate]
                 ELSE t
       IN  IF Accepted(t)
           THEN tx' = t2 /\ transactions' = Append(transactions, t2)
           ELSE tx' = t /\ transactions' = transactions
    /\ i' = i + 1
    /\ UNCHANGED <<fn, text, lines, balance, err, pc, firstResult, rvars, evars, bvars, cvars, ivars>>

\* TxReturn failing when no block was accepted
TxReturn_ErrorOnEmpty ==
    /\ pc = "tx_loop" /\ i = Len(lines)
    /\ pc' = "done" /\ tx' = NoTx
    /\ err' = IF transactions = <<>> THEN "no transactions found" ELSE ""
    /\ UNCHANGED <<fn, text, lines, i, transactions, balance, firstResult, rvars, evars, bvars, cvars, ivars>>

\* return transactions, nil
TxReturn ==
    /\ pc = "tx_loop" /\ i = Len(lines)
    /\ pc' = "done" /\ err' = "" /\ tx' = NoTx
    /\ UNCHANGED <<fn, text, lines, i, transactions, balance, firstResult, rvars, evars, bvars, cvars, ivars>>

\* an iteration of the balance loop that returns the balance
BalFound ==
    /\ pc = "bal_loop" /\ i < Len(lines)
    /\ BalanceAt(lines, i) # <<>>
    /\ balance' = BalanceAt(lines, i)[1]
    /\ err' = "" /\ pc' = "done"
    /\ UNCHANGED <<fn, text, lines, i, tx, transactions, firstResult, rvars, evars, bvars, cvars, ivars>>

\* BalNext giving up at a marker line whose block falls through
BalNext_StopAtMarker ==
    /\ pc = "bal_loop" /\ i < Len(lines)
    /\ BalanceAt(lines, i) = <<>>
    /\ LET line == TrimSpace(lines[i + 1])
       IN  IF HasMarkerEs(line) \/ HasMarkerEn(line)
           THEN err' = ErrBalanceNotFound /\ pc' = "done" /\ i' = i
           ELSE err' = err /\ pc' = pc /\ i' = i + 1
    /\ UNCHANGED <<fn, text, lines, tx, transactions, balance, firstResult, rvars, evars, bvars, cvars, ivars>>

\* an iteration of the balance loop that falls through
BalNext ==
    /\ pc = "bal_loop" /\ i < Len(lines)
    /\ BalanceAt(lines, i) = <<>>
    /\ i' = i + 1
    /\ UNCHANGED <<fn, text, lines, tx, transactions, balance, err, pc, firstResult, rvars, evars, bvars, cvars, ivars>>

\* return nil, fmt.Errorf("balance not found in PDF")
BalNotFound ==
    /\ pc = "bal_loop" /\ i = Len(lines)
    /\ err' = ErrBalanceNotFound /\ pc' = "done"
    /\ UNCHANGED <<fn, text, lines, i, tx, transactions, balance, firstResult, rvars, evars, bvars, cvars, ivars>>

Next ==
    \/ Enter
    \/ TxSkip
    \/ TxAmount
    \/ TxReturn
    \/ BalFound
    \/ BalNext
    \/ BalNotFound

Spec == Init /\ [][Next]_vars

-----------------------------------------------------------------------------
(* The parser applied twice to the same text *)

\* texts that parse to two records
TwoRecordTexts ==
    {Join(<<"SUPERMARKET XYZ", "05.10.2025", "-12,34" \o Euro, a>>) :
        a \in {"-12,34" \o Euro, "+3,00 " \o Euro}}

\* the calls that are made twice: the short texts and the two-record texts
TwiceCalls ==
    {c \in Calls : Len(Split(c.text)) <= MaxTwiceLines} \cup
    {[fn |-> "parseTransactionsFromText", text |-> t] : t \in TwoRecordTexts}

InitTwice ==
    /\ \E c \in TwiceCalls : fn = c.fn /\ text = c.text
    /\ lines = <<>> /\ i = 0 /\ tx = NoTx /\ transactions = <<>>
    /\ balance = "" /\ err = "" /\ pc = "call"
    /\ firstResult = <<>>
    /\ RunIdle /\ ExtractIdle /\ WaitIdle /\ CallIdle /\ IdleIdle

\* Again with the result slice kept from the first call
Again_KeepResult ==
    /\ pc = "done" /\ firstResult = <<>>
    /\ firstResult' = <<transactions, balance, err>>
    /\ lines' = <<>> /\ i' = 0 /\ tx' = NoTx
    /\ balance' = "" /\ err' = "" /\ pc' = "call"
    /\ UNCHANGED <<fn, text, transactions, rvars, evars, bvars, cvars, ivars>>

\* the caller applies fn to the same text once more: a new invocation, whose
\* locals (lines, i, tx, transactions) are new and whose patterns are compiled
\* anew; the first result is remembered
Again ==
    /\ pc = "done" /\ firstResult = <<>>
    /\ firstResult' = <<transactions, balance, err>>
    /\ lines' = <<>> /\ i' = 0 /\ tx' = NoTx /\ transactions' = <<>>
    /\ balance' = "" /\ err' = "" /\ pc' = "call"
    /\ UNCHANGED <<fn, text, rvars, evars, bvars, cvars, ivars>>

NextTwice ==
    \/ Next
    \/ Again

SpecTwice == InitTwice /\ [][NextTwice]_vars

-----------------------------------------------------------------------------
(* main and sendDiscordNotification: a sequence of program runs *)

RangeOf(seq) == {seq[k] : k \in 1..Len(seq)}

\* IsNotified answering false for every key
IsNotified_NeverNotified(store, key) == FALSE

\* PostgresStatementRepository.IsNotified when the query succeeds: the notified
\* column of the row, false when there is no row
IsNotified(store, key) == key \in store

\* the store after MarkMultipleAsNotified has executed its first n upserts
MarkMultipleAsNotified(store, keys, n) == store \cup {keys[k] : k \in 1..n}

\* the end of sendDiscordNotification and of main after it
Return(res) == rpc' = "idle" /\ result' = res

\* defer parser.Close()
Close == closeCount' = closeCount + 1 /\ parserOpen' = FALSE

\* the program is started: environment read, repositories initialised
Main_Start ==
    /\ rpc = "idle" /\ run < MaxRuns
    /\ run' = run + 1
    /\ \E w \in BOOLEAN : webhookURL' = w
    /\ rpc' = "get_cookie"
    /\ cookieHeader' = FALSE /\ loggedIn' = FALSE /\ downloaded' = FALSE
    /\ endpointOutcome' = ""
    /\ pdf' = NoPdf /\ parserOpen' = FALSE /\ closeCount' = 0
    /\ accountBalance' = "" /\ txIdx' = 0 /\ newStatements' = <<>>
    /\ sent' = <<>> /\ result' = "" /\ checkFailed' = {}
    /\ UNCHANGED <<cookieStored, notifiedStore, delivered, storeFailed, pvars, evars, bvars, cvars, ivars>>

\* cookieHeader, err := cookieRepo.Get()
Main_GetCookie ==
    /\ rpc = "get_cookie"
    /\ \E dbOk \in BOOLEAN :
          /\ cookieHeader' = (cookieStored /\ dbOk)
          /\ rpc' = IF cookieStored /\ dbOk THEN "call_endpoint" ELSE "login"
    /\ UNCHANGED <<run, cookieStored, loggedIn, downloaded, webhookURL, pdf,
                   parserOpen, closeCount, accountBalance, txIdx, newStatements,
                   notifiedStore, sent, delivered, storeFailed, result, pvars, evars,
                   endpointOutcome, checkFailed, bvars, cvars, ivars>>

\* Main_CallEndpoint falling through to the login on every endpoint error
Main_CallEndpoint_LoginOnError ==
    /\ rpc = "call_endpoint"
    /\ \E outcome \in {"pdf", "unauthorized", "error"}, d \in Pdfs :
          /\ endpointOutcome' = outcome
          /\ CASE outcome = "pdf" ->
                   /\ pdf' = d /\ downloaded' = TRUE /\ rpc' = "notify"
                   /\ UNCHANGED <<cookieHeader, result>>
             [] outcome = "unauthorized" ->
                   /\ cookieHeader' = FALSE /\ rpc' = "login"
                   /\ UNCHANGED <<pdf, downloaded, result>>
             [] outcome = "error" ->
                   /\ cookieHeader' = FALSE /\ rpc' = "login"
                   /\ UNCHANGED <<pdf, downloaded, result>>
    /\ UNCHANGED <<run, cookieStored, loggedIn, webhookURL, parserOpen,
                   closeCount, accountBalance, txIdx, newStatements,
                   notifiedStore, sent, delivered, storeFailed, checkFailed, pvars, evars, bvars, cvars, ivars>>

\* pdfData, err := callEndpointWithCookie(cookieHeader), and the branch on err
Main_CallEndpoint ==
    /\ rpc = "call_endpoint"
    /\ \E outcome \in {"pdf", "unauthorized", "error"}, d \in Pdfs :
          /\ endpointOutcome' = outcome
          /\ CASE outcome = "pdf" ->
                   /\ pdf' = d /\ downloaded' = TRUE /\ rpc' = "notify"
                   /\ UNCHANGED <<cookieHeader, result>>
             [] outcome = "unauthorized" ->
                   /\ cookieHeader' = FALSE /\ rpc' = "login"
                   /\ UNCHANGED <<pdf, downloaded, result>>
             [] outcome = "error" ->
                   /\ Return("fatal: failed to call endpoint")
                   /\ UNCHANGED <<pdf, downloaded, cookieHeader>>
    /\ UNCHANGED <<run, cookieStored, loggedIn, webhookURL, parserOpen,
                   closeCount, accountBalance, txIdx, newStatements,
                   notifiedStore, sent, delivered, storeFailed, checkFailed, pvars, evars, bvars, cvars, ivars>>

\* newCookie, err := performLoginAndGetCookie(email, password)
Main_Login ==
    /\ rpc = "login" /\ ~cookieHeader
    /\ \E ok \in BOOLEAN :
          IF ok THEN /\ loggedIn' = TRUE /\ rpc' = "save_cookie"
                     /\ UNCHANGED result
          ELSE /\ Return("fatal: login failed") /\ UNCHANGED loggedIn
    /\ UNCHANGED <<run, cookieStored, cookieHeader, downloaded, webhookURL, pdf,
                   parserOpen, closeCount, accountBalance, txIdx, newStatements,
                   notifiedStore, sent, delivered, storeFailed, pvars, evars,
                   endpointOutcome, checkFailed, bvars, cvars, ivars>>

\* cookieRepo.Save(newCookie), then "Login completed and cookie saved. Exiting."
Main_SaveCookie ==
    /\ rpc = "save_cookie"
    /\ \E ok \in BOOLEAN : cookieStored' = (cookieStored \/ ok)
    /\ Return("login completed")
    /\ UNCHANGED <<run, cookieHeader, loggedIn, downloaded, webhookURL, pdf,
                   parserOpen, closeCount, accountBalance, txIdx, newStatements,
                   notifiedStore, sent, delivered, storeFailed, pvars, evars,
                   endpointOutcome, checkFailed, bvars, cvars, ivars>>

\* sendDiscordNotification: WEBHOOK_URL check and NewPDFParserFromBytes
Notify_Open ==
    /\ rpc = "notify"
    /\ IF ~webhookURL
       THEN Return("warning: WEBHOOK_URL is not set") /\ UNCHANGED parserOpen
       ELSE IF ~pdf.opens
       THEN Return("warning: failed to create PDF parser") /\ UNCHANGED parserOpen
       ELSE parserOpen' = TRUE /\ rpc' = "extract" /\ UNCHANGED result
    /\ UNCHANGED <<run, cookieStored, cookieHeader, loggedIn, downloaded,
                   webhookURL, pdf, closeCount, accountBalance, txIdx,
                   newStatements, notifiedStore, sent, delivered, storeFailed,
                   pvars, evars,
                   endpointOutcome, checkFailed, bvars, cvars, ivars>>

\* Notify_Extract returning on the extraction error without closing the parser
Notify_Extract_NoClose ==
    /\ rpc = "extract"
    /\ \E ok \in BOOLEAN :
          IF ok THEN rpc' = "parse" /\ UNCHANGED <<result, closeCount, parserOpen>>
          ELSE /\ Return("warning: failed to extract PDF text")
               /\ UNCHANGED <<closeCount, parserOpen>>
    /\ UNCHANGED <<run, cookieStored, cookieHeader, loggedIn, downloaded,
                   webhookURL, pdf, accountBalance, txIdx, newStatements,
                   notifiedStore, sent, delivered, storeFailed, pvars, evars,
                   endpointOutcome, checkFailed, bvars, cvars, ivars>>

\* extractedText, err := parser.ExtractText()
Notify_Extract ==
    /\ rpc = "extract"
    /\ \E ok \in BOOLEAN :
          IF ok THEN rpc' = "parse" /\ UNCHANGED <<result, closeCount, parserOpen>>
          ELSE Return("warning: failed to extract PDF text") /\ Close
    /\ UNCHANGED <<run, cookieStored, cookieHeader, loggedIn, downloaded,
                   webhookURL, pdf, accountBalance, txIdx, newStatements,
                   notifiedStore, sent, delivered, storeFailed, pvars, evars,
                   endpointOutcome, checkFailed, bvars, cvars, ivars>>

\* transactions, err := parser.ParseTransactions(), and the empty check
Notify_ParseTransactions ==
    /\ rpc = "parse"
    /\ \E ok \in BOOLEAN :
          IF ~ok
          THEN Return("warning: failed to parse PDF transactions") /\ Close
          ELSE IF Len(pdf.txs) = 0
          THEN Return("warning: PDF has no transaction data") /\ Close
          ELSE rpc' = "balance" /\ UNCHANGED <<result, closeCount, parserOpen>>
    /\ UNCHANGED <<run, cookieStored, cookieHeader, loggedIn, downloaded,
                   webhookURL, pdf, accountBalance, txIdx, newStatements,
                   notifiedStore, sent, delivered, storeFailed, pvars, evars,
                   endpointOutcome, checkFailed, bvars, cvars, ivars>>

\* Notify_ParseBalance returning when the balance cannot be parsed
Notify_ParseBalance_Abort ==
    /\ rpc = "balance"
    /\ \E ok \in BOOLEAN :
          IF ok /\ pdf.balance # ""
          THEN /\ accountBalance' = pdf.balance /\ rpc' = "filter"
               /\ UNCHANGED <<result, closeCount, parserOpen>>
          ELSE /\ Return("warning: failed to parse balance") /\ Close
               /\ UNCHANGED accountBalance
    /\ txIdx' = 0 /\ newStatements' = <<>>
    /\ UNCHANGED <<run, cookieStored, cookieHeader, loggedIn, downloaded,
                   webhookURL, pdf, notifiedStore, sent,
                   delivered, storeFailed, pvars, evars,
                   endpointOutcome, checkFailed, bvars, cvars, ivars>>

\* balance, err := parser.ParseBalance(), "N/A" on error
Notify_ParseBalance ==
    /\ rpc = "balance"
    /\ \E ok \in BOOLEAN :
          accountBalance' =
              IF ok /\ pdf.balance # "" THEN pdf.balance ELSE "N/A"
    /\ rpc' = "filter" /\ txIdx' = 0 /\ newStatements' = <<>>
    /\ UNCHANGED <<run, cookieStored, cookieHeader, loggedIn, downloaded,
                   webhookURL, pdf, parserOpen, closeCount, notifiedStore, sent,
                   delivered, storeFailed, result, pvars, evars,
                   endpointOutcome, checkFailed, bvars, cvars, ivars>>

\* Notify_Filter leaving out a statement whose IsNotified call failed
Notify_Filter_FailClosed ==
    /\ rpc = "filter" /\ txIdx < Len(pdf.txs)
    /\ LET key == KeyOf(pdf.txs[txIdx + 1])
       IN  \E dbOk \in BOOLEAN :
              LET notified == ~dbOk \/ IsNotified(notifiedStore, key)
              IN  /\ newStatements' = IF notified THEN newStatements
                                      ELSE Append(newStatements, key)
                  /\ storeFailed' = (storeFailed \/ ~dbOk)
                  /\ checkFailed' = IF dbOk THEN checkFailed
                                    ELSE checkFailed \cup {txIdx + 1}
    /\ txIdx' = txIdx + 1
    /\ UNCHANGED <<rpc, run, cookieStored, cookieHeader, loggedIn, downloaded,
                   webhookURL, pdf, parserOpen, closeCount, accountBalance,
                   notifiedStore, sent, delivered, result, pvars, evars,
                   endpointOutcome, bvars, cvars, ivars>>

\* one iteration of the loop over transactions: IsNotified, fail-open on error
Notify_Filter ==
    /\ rpc = "filter" /\ txIdx < Len(pdf.txs)
    /\ LET key == KeyOf(pdf.txs[txIdx + 1])
       IN  \E dbOk \in BOOLEAN :
              LET notified == dbOk /\ IsNotified(notifiedStore, key)
              IN  /\ newStatements' = IF notified THEN newStatements
                                      ELSE Append(newStatements, key)
                  /\ storeFailed' = (storeFailed \/ ~dbOk)
                  /\ checkFailed' = IF dbOk THEN checkFailed
                                    ELSE checkFailed \cup {txIdx + 1}
    /\ txIdx' = txIdx + 1
    /\ UNCHANGED <<rpc, run, cookieStored, cookieHeader, loggedIn, downloaded,
                   webhookURL, pdf, parserOpen, closeCount, accountBalance,
                   notifiedStore, sent, delivered, result, pvars, evars,
                   endpointOutcome, bvars, cvars, ivars>>

\* Notify_NoNew sending the (empty) notification instead of returning
Notify_NoNew_SendsAnyway ==
    /\ rpc = "filter" /\ txIdx = Len(pdf.txs)
    /\ Len(newStatements) = 0
    /\ rpc' = "mark"
    /\ UNCHANGED <<run, cookieStored, cookieHeader, loggedIn, downloaded,
                   webhookURL, pdf, accountBalance, txIdx, newStatements,
                   notifiedStore, sent, delivered, storeFailed, pvars, evars,
                   result, closeCount, parserOpen,
                   endpointOutcome, checkFailed, bvars, cvars, ivars>>

\* after the loop: nothing new, return nil
Notify_NoNew ==
    /\ rpc = "filter" /\ txIdx = Len(pdf.txs)
    /\ Len(newStatements) = 0
    /\ Return("no new statements") /\ Close
    /\ UNCHANGED <<run, cookieStored, cookieHeader, loggedIn, downloaded,
                   webhookURL, pdf, accountBalance, txIdx, newStatements,
                   notifiedStore, sent, delivered, storeFailed, pvars, evars,
                   endpointOutcome, checkFailed, bvars, cvars, ivars>>

\* Notify_Webhook going on to mark the statements whatever the request returned
Notify_Webhook_MarkAnyway ==
    /\ rpc = "filter" /\ txIdx = Len(pdf.txs)
    /\ Len(newStatements) > 0
    /\ \E outcome \in {"error", "status 500", "status 204"} :
          IF outcome = "status 204"
          THEN /\ sent' = newStatements
               /\ delivered' = [k \in Keys |->
                     IF k \in RangeOf(newStatements) THEN delivered[k] + 1
                     ELSE delivered[k]]
          ELSE UNCHANGED <<sent, delivered>>
    /\ rpc' = "mark"
    /\ UNCHANGED <<result, closeCount, parserOpen>>
    /\ UNCHANGED <<run, cookieStored, cookieHeader, loggedIn, downloaded,
                   webhookURL, pdf, accountBalance, txIdx, newStatements,
                   notifiedStore, storeFailed, pvars, evars,
                   endpointOutcome, checkFailed, bvars, cvars, ivars>>

\* the webhook request: client.Do and the status check
Notify_Webhook ==
    /\ rpc = "filter" /\ txIdx = Len(pdf.txs)
    /\ Len(newStatements) > 0
    /\ \E outcome \in {"error", "status 500", "status 204"} :
          IF outcome = "status 204"
          THEN /\ sent' = newStatements
               /\ delivered' = [k \in Keys |->
                     IF k \in RangeOf(newStatements) THEN delivered[k] + 1
                     ELSE delivered[k]]
               /\ rpc' = "mark"
               /\ UNCHANGED <<result, closeCount, parserOpen>>
          ELSE /\ Return("warning: webhook " \o outcome) /\ Close
               /\ UNCHANGED <<sent, delivered>>
    /\ UNCHANGED <<run, cookieStored, cookieHeader, loggedIn, downloaded,
                   webhookURL, pdf, accountBalance, txIdx, newStatements,
                   notifiedStore, storeFailed, pvars, evars,
                   endpointOutcome, checkFailed, bvars, cvars, ivars>>

\* statementRepo.MarkMultipleAsNotified(notifiedKeys): the upserts run in order
\* and the first failing one ends the call; the error is only logged
Notify_Mark ==
    /\ rpc = "mark"
    /\ \E n \in 0..Len(newStatements) :
          /\ notifiedStore' = MarkMultipleAsNotified(notifiedStore, newStatements, n)
          /\ storeFailed' = (storeFailed \/ n < Len(newStatements))
    /\ Return("notified") /\ Close
    /\ UNCHANGED <<run, cookieStored, cookieHeader, loggedIn, downloaded,
                   webhookURL, pdf, accountBalance, txIdx, newStatements, sent,
                   delivered, pvars, evars,
                   endpointOutcome, checkFailed, bvars, cvars, ivars>>

\* the cookies table may hold a cookie of an earlier login
InitRun ==
    /\ ParserIdle /\ ExtractIdle /\ WaitIdle /\ CallIdle /\ IdleIdle
    /\ \E c \in BOOLEAN : cookieStored = c
    /\ rpc = "idle" /\ run = 0 /\ cookieHeader = FALSE
    /\ loggedIn = FALSE /\ downloaded = FALSE /\ webhookURL = FALSE
    /\ endpointOutcome = ""
    /\ pdf = NoPdf /\ parserOpen = FALSE /\ closeCount = 0
    /\ accountBalance = "" /\ txIdx = 0 /\ newStatements = <<>>
    /\ notifiedStore = {} /\ sent = <<>> /\ delivered = [k \in Keys |-> 0]
    /\ storeFailed = FALSE /\ checkFailed = {} /\ result = ""

NextRun ==
    \/ Main_Start
    \/ Main_GetCookie
    \/ Main_CallEndpoint
    \/ Main_Login
    \/ Main_SaveCookie
    \/ Notify_Open
    \/ Notify_Extract
    \/ Notify_ParseTransactions
    \/ Notify_ParseBalance
    \/ Notify_Filter
    \/ Notify_NoNew
    \/ Notify_Webhook
    \/ Notify_Mark

SpecRun == InitRun /\ [][NextRun]_vars

-----------------------------------------------------------------------------
(* PDFParser.ExtractText *)

\* the texts doc.Text(i) can return for a page
PageTexts == {"", "Tu nuevo saldo", "1,00 " \o Euro \o "\n"}

\* what doc.Text(i) returns: the text of the page, or an error
Pages ==
    {[ok |-> TRUE, text |-> t] : t \in PageTexts} \cup {[ok |-> FALSE, text |-> ""]}

Docs == SeqsUpTo(Pages, MaxPages)

\* %d
RECURSIVE Itoa(_)
Itoa(n) ==
    IF n < 10 THEN Ch("0123456789", n + 1)
    ELSE Itoa(n \div 10) \o Ch("0123456789", (n % 10) + 1)

\* fmt.Errorf("failed to extract text from page %d: %w", i+1, err)
ErrPage(idx) == "failed to extract text from page " \o Itoa(idx + 1)

InitExtract ==
    /\ ParserIdle /\ RunIdle /\ WaitIdle /\ CallIdle /\ IdleIdle
    /\ doc \in Docs
    /\ pageIdx = 0 /\ textBuilder = "" /\ pagesRead = <<>>
    /\ extractedText = "" /\ extractErr = "" /\ epc = "loop"

\* Extract_Page writing a newline after every page
Extract_Page_TrailingNewline ==
    /\ epc = "loop" /\ pageIdx < Len(doc)
    /\ doc[pageIdx + 1].ok
    /\ pagesRead' = Append(pagesRead, pageIdx)
    /\ textBuilder' = textBuilder \o doc[pageIdx + 1].text \o "\n"
    /\ pageIdx' = pageIdx + 1
    /\ UNCHANGED <<doc, extractedText, extractErr, epc, pvars, rvars, bvars, cvars, ivars>>

\* an iteration whose doc.Text(i) succeeds: the text is written, and a newline
\* unless the page is the last
Extract_Page ==
    /\ epc = "loop" /\ pageIdx < Len(doc)
    /\ doc[pageIdx + 1].ok
    /\ pagesRead' = Append(pagesRead, pageIdx)
    /\ textBuilder' =
          textBuilder \o doc[pageIdx + 1].text \o
          (IF pageIdx < Len(doc) - 1 THEN "\n" ELSE "")
    /\ pageIdx' = pageIdx + 1
    /\ UNCHANGED <<doc, extractedText, extractErr, epc, pvars, rvars, bvars, cvars, ivars>>

\* Extract_Fail returning what the builder holds
Extract_Fail_Partial ==
    /\ epc = "loop" /\ pageIdx < Len(doc)
    /\ ~doc[pageIdx + 1].ok
    /\ pagesRead' = Append(pagesRead, pageIdx)
    /\ extractedText' = textBuilder /\ extractErr' = ErrPage(pageIdx)
    /\ epc' = "done"
    /\ UNCHANGED <<doc, pageIdx, textBuilder, pvars, rvars, bvars, cvars, ivars>>

\* an iteration whose doc.Text(i) fails: return "", error of page i+1
Extract_Fail ==
    /\ epc = "loop" /\ pageIdx < Len(doc)
    /\ ~doc[pageIdx + 1].ok
    /\ pagesRead' = Append(pagesRead, pageIdx)
    /\ extractedText' = "" /\ extractErr' = ErrPage(pageIdx)
    /\ epc' = "done"
    /\ UNCHANGED <<doc, pageIdx, textBuilder, pvars, rvars, bvars, cvars, ivars>>

\* return textBuilder.String(), nil
Extract_Return ==
    /\ epc = "loop" /\ pageIdx = Len(doc)
    /\ extractedText' = textBuilder /\ extractErr' = ""
    /\ epc' = "done"
    /\ UNCHANGED <<doc, pageIdx, textBuilder, pagesRead, pvars, rvars, bvars, cvars, ivars>>

NextExtract ==
    \/ Extract_Page
    \/ Extract_Fail
    \/ Extract_Return

SpecExtract == InitExtract /\ [][NextExtract]_vars

-----------------------------------------------------------------------------
(* waitFor2FAConfirmation *)

\* context.WithTimeout(ctx, 60*time.Second)
TwoFATimeout == 60

\* time.NewTicker(5 * time.Second)
TickPeriod == 5

\* context.WithTimeout(ctx, 2*time.Minute) of the browser context
ParentTimeout == 120

\* the clock stops at MaxClock seconds
MaxClock == 70

ErrTwoFATimeout ==
    "2FA confirmation timeout: no confirmation received within 60 seconds"

\* the URL of the login page and a URL of the application behind it
LoginURL == "https://app.n26.com/login"
AppURL == "https://app.n26.com/feed"

\* what the parent context can have left when the wait starts
CtxLefts == {30, ParentTimeout}

\* ctx2FA.Done() is closed: the 60 seconds or the parent's time are over
CtxDone == now >= TwoFATimeout \/ now >= ctxLeft

Init2FA ==
    /\ ParserIdle /\ RunIdle /\ ExtractIdle /\ CallIdle /\ IdleIdle
    /\ wpc = "select" /\ now = 0 /\ ctxLeft \in CtxLefts /\ tickerC = FALSE
    /\ pageURL = LoginURL /\ currentURL = "" /\ seenConfirmed = FALSE
    /\ waitErr = ""

\* time passes until the next tick of the ticker; ticker.C holds one tick
Advance ==
    /\ wpc # "done" /\ now + TickPeriod <= MaxClock
    /\ now' = now + TickPeriod /\ tickerC' = TRUE
    /\ UNCHANGED <<wpc, ctxLeft, pageURL, currentURL, seenConfirmed, waitErr,
                   pvars, rvars, evars, cvars, ivars>>

\* the user confirms on the phone and the browser leaves the login page
UserConfirms ==
    /\ wpc # "done" /\ pageURL = LoginURL
    /\ pageURL' = AppURL
    /\ UNCHANGED <<wpc, now, ctxLeft, tickerC, currentURL, seenConfirmed,
                   waitErr, pvars, rvars, evars, cvars, ivars>>

\* Wait_Timeout looking at the deadline of the parent context only
Wait_Timeout_ParentOnly ==
    /\ wpc = "select" /\ now >= ctxLeft
    /\ waitErr' = ErrTwoFATimeout /\ wpc' = "done"
    /\ UNCHANGED <<now, ctxLeft, tickerC, pageURL, currentURL, seenConfirmed,
                   pvars, rvars, evars, cvars, ivars>>

\* case <-ctx2FA.Done()
Wait_Timeout ==
    /\ wpc = "select" /\ CtxDone
    /\ waitErr' = ErrTwoFATimeout /\ wpc' = "done"
    /\ UNCHANGED <<now, ctxLeft, tickerC, pageURL, currentURL, seenConfirmed,
                   pvars, rvars, evars, cvars, ivars>>

\* case <-ticker.C
Wait_Tick ==
    /\ wpc = "select" /\ tickerC
    /\ tickerC' = FALSE /\ wpc' = "poll"
    /\ UNCHANGED <<now, ctxLeft, pageURL, currentURL, seenConfirmed, waitErr,
                   pvars, rvars, evars, cvars, ivars>>

\* chromedp.Run(ctx2FA, chromedp.Location(&currentURL)) and the branches on its
\* result; Run fails once ctx2FA is done, and can fail before
Wait_Poll ==
    /\ wpc = "poll"
    /\ \E ok \in BOOLEAN :
          IF CtxDone \/ ~ok
          THEN /\ wpc' = "select"
               /\ UNCHANGED <<currentURL, seenConfirmed, waitErr>>
          ELSE /\ currentURL' = pageURL
               /\ IF ~Contains(pageURL, "/login")
                  THEN /\ seenConfirmed' = TRUE /\ waitErr' = ""
                       /\ wpc' = "done"
                  ELSE /\ wpc' = "select"
                       /\ UNCHANGED <<seenConfirmed, waitErr>>
    /\ UNCHANGED <<now, ctxLeft, tickerC, pageURL, pvars, rvars, evars, cvars, ivars>>

Next2FA ==
    \/ Advance
    \/ UserConfirms
    \/ Wait_Timeout
    \/ Wait_Tick
    \/ Wait_Poll

Spec2FA == Init2FA /\ [][Next2FA]_vars

\* time passes, a started poll returns, and the select statement, which picks
\* at random among its ready cases, does not pass over ctx2FA.Done() forever
Spec2FAFair ==
    /\ Spec2FA
    /\ WF_vars(Advance)
    /\ WF_vars(Wait_Poll)
    /\ SF_vars(Wait_Timeout)

-----------------------------------------------------------------------------
(* callEndpointWithCookie and isUnauthorizedError *)

Quote == "\""

\* strings.Contains(strings.ToLower(s), sub) for a lower-case sub
ContainsLower(s, sub) ==
    \E k \in 1..(Len(s) - Len(sub) + 1) :
        ToLower(SubSeq(s, k, k + Len(sub) - 1)) = sub

\* strings.Index(s, sub) + 1, for an s that contains sub
Index(s, sub) ==
    CHOOSE k \in 1..(Len(s) - Len(sub) + 1) :
        /\ SubSeq(s, k, k + Len(sub) - 1) = sub
        /\ \A m \in 1..(k - 1) : SubSeq(s, m, m + Len(sub) - 1) # sub

\* strconv.Atoi of a run of digits
RECURSIVE Atoi(_)
Atoi(d) ==
    IF d = "" THEN 0
    ELSE 10 * Atoi(SubSeq(d, 1, Len(d) - 1))
         + (CHOOSE n \in 0..9 : Ch("0123456789", n + 1) = Ch(d, Len(d)))

\* var errResp ErrorResponse: the two fields the code reads
ZeroResp == [ok |-> TRUE, Status |-> 0, Error |-> ""]
BadJSON == [ok |-> FALSE, Status |-> 0, Error |-> ""]

\* the members of a JSON object from position p of s on, for objects whose
\* values are unsigned integers and strings without escapes, written without
\* white space; the object must end s. Keys match the field tags without
\* regard to case, unknown keys are skipped, and a value of the wrong type
\* for "status" or "error" makes Unmarshal fail.
RECURSIVE Members(_, _, _)
Members(s, p, acc) ==
    IF Ch(s, p) # Quote \/ ~Contains(SubSeq(s, p + 1, Len(s)), Quote) THEN BadJSON
    ELSE LET q == p + Index(SubSeq(s, p + 1, Len(s)), Quote)
             key == ToLower(SubSeq(s, p + 1, q - 1))
             v == q + 2
             isNum == IsDigit(Ch(s, v))
             isStr == Ch(s, v) = Quote /\ Contains(SubSeq(s, v + 1, Len(s)), Quote)
             e == IF isNum THEN DigitRunEnd(s, v)
                  ELSE IF isStr THEN v + Index(SubSeq(s, v + 1, Len(s)), Quote) + 1
                  ELSE v
             acc1 == IF key = "status"
                     THEN IF isNum
                          THEN [acc EXCEPT !.Status = Atoi(SubSeq(s, v, e - 1))]
                          ELSE [acc EXCEPT !.ok = FALSE]
                     ELSE IF key = "error"
                     THEN IF isStr
                          THEN [acc EXCEPT !.Error = SubSeq(s, v + 1, e - 2)]
                          ELSE [acc EXCEPT !.ok = FALSE]
                     ELSE acc
         IN  IF Ch(s, q + 1) # ":" \/ ~(isNum \/ isStr) THEN BadJSON
             ELSE IF Ch(s, e) = "}" /\ e = Len(s) THEN acc1
             ELSE IF Ch(s, e) = "," THEN Members(s, e + 1, acc1)
             ELSE BadJSON

\* json.Unmarshal([]byte(s), &errResp): ok is err == nil
Unmarshal(s) ==
    IF s = "{}" THEN ZeroResp
    ELSE IF Ch(s, 1) = "{" THEN Members(s, 2, ZeroResp)
    ELSE BadJSON

\* the request URL: endpoint with $ACCOUNT_ID, $END_UNIX and $START_UNIX replaced
AccountId == "a1b2"

RequestURL(end) ==
    "https://app.n26.com/account-activity/period/" \o AccountId
    \o "?endDate=" \o Itoa(end) \o "000"
    \o "&format=pdf&startDate=" \o Itoa(end - 30 * 24 * 3600) \o "000"

\* time.Now().Unix() at the moment of the call
EndUnixes == {1762000000, 1762040100}

\* the response bodies
Bodies ==
    {"", "%PDF-1.4", "Unauthorized", "upstream returned 401",
     "Internal Server Error", "<html>{}</html>", "[]", "{not json",
     "{}", "{\"status\":401,\"error\":\"invalid_token\"}", "{\"status\":401}",
     "{\"error\":\"invalid_token\"}", "{\"status\":403,\"error\":\"forbidden\"}",
     "{\"status\":500,\"error\":\"internal\"}", "{\"status\":200}",
     "{\"message\":\"token expired\"}"}

Statuses == {200, 401, 403, 500}

\* what the HTTP exchange produces: client.Do fails, io.ReadAll fails, or a
\* status code and a body are received
Responses ==
    {[fail |-> f, status |-> 0, body |-> ""] : f \in {"do", "read"}} \cup
    {[fail |-> "", status |-> st, body |-> b] : st \in Statuses, b \in Bodies}

\* the body is JSON that says status 401 or error "invalid_token"
JSONUnauthorized(body) ==
    /\ Len(body) > 0 /\ Ch(body, 1) \in {"{", "["}
    /\ Unmarshal(body).ok
    /\ Unmarshal(body).Status = 401 \/ Unmarshal(body).Error = "invalid_token"

\* callEndpointWithCookie: the error it returns for the response, "" for nil
callEndpointWithCookie(end, resp) ==
    IF resp.fail = "do"
    THEN "failed to make request: Get " \o Quote \o RequestURL(end) \o Quote
         \o ": dial tcp: lookup app.n26.com: no such host"
    ELSE IF resp.fail = "read"
    THEN "failed to read response: unexpected EOF"
    ELSE IF resp.status = 401
    THEN "401 unauthorized: " \o resp.body
    ELSE IF JSONUnauthorized(resp.body)
    THEN "401 unauthorized: " \o resp.body
    ELSE IF /\ Len(resp.body) > 0 /\ Ch(resp.body, 1) \in {"{", "["}
            /\ Unmarshal(resp.body).ok /\ Unmarshal(resp.body).Status >= 400
    THEN "request failed with status " \o Itoa(Unmarshal(resp.body).Status)
         \o ": " \o resp.body
    ELSE IF resp.status < 200 \/ resp.status >= 300
    THEN "request failed with status " \o Itoa(resp.status) \o ": " \o resp.body
    ELSE ""

\* isUnauthorizedError(err), errStr being err.Error() and "" standing for nil
isUnauthorizedError(errStr) ==
    IF errStr = "" THEN FALSE
    ELSE IF Contains(errStr, "401") \/ ContainsLower(errStr, "unauthorized")
    THEN IF Contains(errStr, "{")
         THEN LET u == Unmarshal(SubSeq(errStr, Index(errStr, "{"), Len(errStr)))
              IN  IF u.ok THEN u.Status = 401 \/ u.Error = "invalid_token"
                  ELSE TRUE
         ELSE TRUE
    ELSE FALSE

InitCall ==
    /\ ParserIdle /\ RunIdle /\ ExtractIdle /\ WaitIdle /\ IdleIdle
    /\ cpc = "call" /\ endUnix \in EndUnixes /\ response \in Responses
    /\ callErr = "" /\ branch = ""

\* pdfData, err := callEndpointWithCookie(cookieHeader)
Call_Endpoint ==
    /\ cpc = "call"
    /\ callErr' = callEndpointWithCookie(endUnix, response)
    /\ cpc' = "returned"
    /\ UNCHANGED <<endUnix, response, branch, pvars, rvars, evars, bvars, ivars>>

\* main's branch on err: the notification, the login, or log.Fatalf
Call_Branch ==
    /\ cpc = "returned"
    /\ branch' = IF callErr = "" THEN "notify"
                 ELSE IF isUnauthorizedError(callErr) THEN "login"
                 ELSE "fatal"
    /\ cpc' = "done"
    /\ UNCHANGED <<endUnix, response, callErr, pvars, rvars, evars, bvars, ivars>>

NextCall ==
    \/ Call_Endpoint
    \/ Call_Branch

SpecCall == InitCall /\ [][NextCall]_vars

-----------------------------------------------------------------------------
(* waitForNetworkIdle *)

\* idleDuration := 500 * time.Millisecond
IdleDuration == 500

\* checkInterval := 50 * time.Millisecond
CheckInterval == 50

\* maxWait := 30 * time.Second, in milliseconds
MaxWait == 30000

\* the clock stops at MaxIdleClock milliseconds
MaxIdleClock == 30200

\* the values of maxConnections: 0 as at the three call sites, and 1
MaxConnectionsValues == {0, 1}

\* the request ids the browser uses
RequestIDs == {"r1", "r2"}

ErrIdleTimeout == "timeout waiting for network idle"
ErrCanceled == "context canceled"

\* the state right after chromedp.ListenTarget and startTime := time.Now()
InitIdle ==
    /\ ParserIdle /\ RunIdle /\ ExtractIdle /\ WaitIdle /\ CallIdle
    /\ ipc = "check" /\ nowMs = 0 /\ maxConnections \in MaxConnectionsValues
    /\ activeRequests = {} /\ idleSince = 0
    /\ ctxCancelled = FALSE /\ idleErr = "" /\ overSinceIdle = FALSE

\* the listener callback, under mu: EventRequestWillBeSent adds the id,
\* EventLoadingFinished and EventLoadingFailed delete it
Idle_Event ==
    /\ ipc \notin {"idle", "done"}
    /\ \E id \in RequestIDs, ev \in {"RequestWillBeSent", "LoadingFinished", "LoadingFailed"} :
          activeRequests' = IF ev = "RequestWillBeSent"
                            THEN activeRequests \cup {id}
                            ELSE activeRequests \ {id}
    /\ activeRequests' # activeRequests
    /\ overSinceIdle' =
          (overSinceIdle \/ Cardinality(activeRequests') > maxConnections)
    /\ UNCHANGED <<ipc, nowMs, maxConnections, idleSince,
                   ctxCancelled, idleErr, pvars, rvars, evars, bvars, cvars>>

\* the context of the action is cancelled
Idle_Cancel ==
    /\ ipc \notin {"idle", "done"} /\ ~ctxCancelled
    /\ ctxCancelled' = TRUE
    /\ UNCHANGED <<ipc, nowMs, maxConnections, activeRequests, idleSince,
                   idleErr, overSinceIdle, pvars, rvars, evars, bvars, cvars>>

\* Idle_Check without the check of maxWait
Idle_Check_NoTimeout ==
    /\ ipc = "check"
    /\ LET activeCount == Cardinality(activeRequests)
       IN  IF activeCount <= maxConnections /\ nowMs - idleSince >= IdleDuration
           THEN /\ ipc' = "done" /\ idleErr' = ""
                /\ UNCHANGED <<idleSince, overSinceIdle>>
           ELSE /\ idleSince' = IF activeCount <= maxConnections THEN idleSince
                                ELSE nowMs
                /\ overSinceIdle' =
                      (activeCount <= maxConnections /\ overSinceIdle)
                /\ ipc' = "sleep" /\ UNCHANGED idleErr
    /\ UNCHANGED <<nowMs, maxConnections, activeRequests, ctxCancelled,
                   pvars, rvars, evars, bvars, cvars>>

\* the first half of an iteration: activeCount is read under mu, then the
\* idle check, the reset of idleSince and the timeout check use it
Idle_Check ==
    /\ ipc = "check"
    /\ LET activeCount == Cardinality(activeRequests)
       IN  IF activeCount <= maxConnections /\ nowMs - idleSince >= IdleDuration
           THEN /\ ipc' = "done" /\ idleErr' = ""
                /\ UNCHANGED <<idleSince, overSinceIdle>>
           ELSE /\ idleSince' = IF activeCount <= maxConnections THEN idleSince
                                ELSE nowMs
                /\ overSinceIdle' =
                      (activeCount <= maxConnections /\ overSinceIdle)
                /\ IF nowMs > MaxWait
                   THEN ipc' = "done" /\ idleErr' = ErrIdleTimeout
                   ELSE ipc' = "sleep" /\ UNCHANGED idleErr
    /\ UNCHANGED <<nowMs, maxConnections, activeRequests, ctxCancelled,
                   pvars, rvars, evars, bvars, cvars>>

\* the second half: time.Sleep(checkInterval), then
\* select { case <-ctx.Done(): return ctx.Err(); default: }
Idle_Sleep ==
    /\ ipc = "sleep" /\ nowMs + CheckInterval <= MaxIdleClock
    /\ nowMs' = nowMs + CheckInterval
    /\ overSinceIdle' =
          (overSinceIdle \/ Cardinality(activeRequests) > maxConnections)
    /\ IF ctxCancelled
       THEN ipc' = "done" /\ idleErr' = ErrCanceled
       ELSE ipc' = "check" /\ UNCHANGED idleErr
    /\ UNCHANGED <<maxConnections, activeRequests, idleSince,
                   ctxCancelled, pvars, rvars, evars, bvars, cvars>>

NextIdle ==
    \/ Idle_Event
    \/ Idle_Cancel
    \/ Idle_Check
    \/ Idle_Sleep

SpecIdle == InitIdle /\ [][NextIdle]_vars

\* the polling goroutine keeps running: each of its steps is taken once enabled
SpecIdleFair ==
    /\ SpecIdle
    /\ WF_vars(Idle_Check)
    /\ WF_vars(Idle_Sleep)

-----------------------------------------------------------------------------
(* Properties of the parser *)

TxDone == fn = "parseTransactionsFromText" /\ pc = "done"
BalDone == fn = "parseBalanceFromText" /\ pc = "done"

ScenarioA ==
    Join(<<"Fecha de valor 05.10.2025", "05.10.2025", "SUPERMARKET XYZ",
           "-12,34" \o Euro>>)

ScenarioAPartnerFirst ==
    Join(<<"SUPERMARKET XYZ", "Fecha de valor 05.10.2025", "05.10.2025",
           "-12,34" \o Euro>>)

ScenarioARecord ==
    [BookingDate |-> "05.10.2025", ValueDate |-> "05.10.2025",
     PartnerName |-> "SUPERMARKET XYZ", Amount |-> "-12,34"]

\* C1 as stated: parsing the four lines of Scenario A yields exactly the one
\* record of the scenario.
C1_ScenarioA_OneRecord ==
    (TxDone /\ text = ScenarioA) => transactions = <<ScenarioARecord>>

\* C1 amended: the four lines of Scenario A yield no record, since the
\* counterparty line lies immediately before the amount line and so outside the
\* counterparty window; with the counterparty line first, the parse yields
\* exactly the record of the scenario.
C1_ScenarioA_Amended ==
    TxDone =>
        /\ text = ScenarioA => transactions = <<>>
        /\ text = ScenarioAPartnerFirst => transactions = <<ScenarioARecord>>

C1_Witness == TxDone /\ text = ScenarioA /\ transactions = <<>>

ScenarioC == Join(<<"Tu nuevo saldo", "Ref 12 1.234,56" \o Euro>>)

\* C2: for "Tu nuevo saldo" followed by "Ref 12 1.234,56€", ParseBalance
\* returns the balance "1.234,56".
C2_ScenarioC_Balance ==
    (BalDone /\ text = ScenarioC) => (err = "" /\ balance = "1.234,56")

MarkerPhrases == {"tu nuevo saldo", "your new balance"}

RecognisedSpellings ==
    {"Tu nuevo saldo", "tu nuevo saldo", "Your new balance", "your new balance"}

MarkerAnyCase(l) == \E m \in MarkerPhrases : Contains(ToLower(l), m)

IsMarkerLine(l) == \E m \in RecognisedSpellings : Contains(l, m)

HoldsAmount(l) == AmountMatch(TrimSpace(l))

MinOf(S) == CHOOSE k \in S : \A m \in S : k <= m

\* C6 as stated: the first line containing a marker decides the outcome: the
\* balance of its following line, or the balance-not-found error when that line
\* holds no amount.
C6_FirstMarkerDecides ==
    (BalDone /\ \E k \in 1..Len(lines) : IsMarkerLine(lines[k])) =>
        LET k == MinOf({m \in 1..Len(lines) : IsMarkerLine(lines[m])})
        IN  IF k < Len(lines) /\ HoldsAmount(lines[k + 1])
            THEN err = "" /\ i = k - 1
            ELSE err = ErrBalanceNotFound

\* C6 amended: the first marker line whose following line holds an amount
\* decides the balance and no line after it is read; a marker line whose
\* following line holds no amount (or that is the last line) is passed over;
\* the error is returned only when no marker line is followed by an amount.
C6_FirstMarkerWithAmount ==
    BalDone =>
        LET K == {k \in 1..(Len(lines) - 1) :
                     IsMarkerLine(lines[k]) /\ HoldsAmount(lines[k + 1])}
        IN  IF K = {}
            THEN err = ErrBalanceNotFound /\ balance = "" /\ i = Len(lines)
            ELSE /\ err = "" /\ i = MinOf(K) - 1
                 /\ balance # "" /\ Contains(lines[MinOf(K) + 1], balance)

C6_Witness ==
    /\ BalDone /\ err = ""
    /\ \E k \in 1..i : IsMarkerLine(lines[k])

IsPrefix(a, b) == Len(a) <= Len(b) /\ SubSeq(b, 1, Len(a)) = a

\* b is the match m without its trailing whitespace and currency symbol
IsNumberOf(b, m) ==
    /\ IsPrefix(b, m)
    /\ \A k \in 1..Len(b) : ~IsSpace(Ch(b, k)) /\ Ch(b, k) # Euro
    /\ \A k \in (Len(b) + 1)..Len(m) : IsSpace(Ch(m, k)) \/ Ch(m, k) = Euro

\* C7: a returned balance is the last amount match of the line following the
\* marker line, without trailing currency symbol and surrounding whitespace.
C7_LastMatch ==
    (BalDone /\ err = "") =>
        LET amounts == FindAllAmounts(TrimSpace(lines[i + 2]), 1)
        IN  Len(amounts) > 0 /\ IsNumberOf(balance, amounts[Len(amounts)])

C7_Witness ==
    /\ BalDone /\ err = "" /\ lines[i + 2] = "1,00 2,50 " \o Euro /\ balance = "2,50"

\* C8: a text in which no line but the last contains a marker (the empty text
\* included) makes ParseBalance fail with the balance-not-found error and
\* return no balance.
C8_NoMarkerNotFound ==
    (BalDone /\ \A k \in 1..(Len(lines) - 1) : ~IsMarkerLine(lines[k]))
    => (err = ErrBalanceNotFound /\ balance = "")

C8_Witness ==
    /\ BalDone /\ Len(lines) = 2 /\ IsMarkerLine(lines[2])
    /\ err = ErrBalanceNotFound /\ balance = ""

\* l is, in its entirety, one optionally signed comma-decimal amount with an
\* optional trailing currency symbol; d is the position of the comma
FullLineAmountAt(l, d) ==
    LET from == IF Ch(l, 1) \in {"+", "-"} THEN 2 ELSE 1
        rest == SubSeq(l, d + 3, Len(l))
    IN  /\ d > from
        /\ Ch(l, d) = ","
        /\ \A k \in from..(d - 1) : IsDigit(Ch(l, k))
        /\ d + 2 <= Len(l) /\ IsDigit(Ch(l, d + 1)) /\ IsDigit(Ch(l, d + 2))
        /\ \A k \in 1..Len(rest) : IsReSpace(Ch(rest, k)) \/ Ch(rest, k) = Euro
        /\ \A k \in 1..Len(rest) :
               Ch(rest, k) = Euro =>
                   \A m \in (k + 1)..Len(rest) : IsReSpace(Ch(rest, m))

FullLineAmount(l) == \E d \in 1..Len(l) : FullLineAmountAt(l, d)

\* C9: a record is appended only in the iteration of a full-line comma-decimal
\* amount, its Amount is that line without currency symbol and whitespace, and
\* there are never more records than full-line amounts among the lines read.
C9_OnlyFullLineAmounts ==
    [][fn = "parseTransactionsFromText" =>
        /\ Len(transactions') > Len(transactions) =>
              LET l == TrimSpace(lines[i + 1])
              IN  /\ Len(transactions') = Len(transactions) + 1
                  /\ \E d \in 1..Len(l) :
                        /\ FullLineAmountAt(l, d)
                        /\ transactions'[Len(transactions')].Amount
                               = SubSeq(l, 1, d + 2)
        /\ Len(transactions') <=
              Cardinality({k \in 1..i' : FullLineAmount(TrimSpace(lines'[k]))})
      ]_vars

C9_Witness ==
    /\ TxDone /\ Len(transactions) = 1
    /\ \E k \in 1..Len(lines) : lines[k] \in {"12.50", "7,00 EUR", "x -2,50" \o Euro}

\* C10: after the iteration of an amount line, PartnerName is the longest
\* non-skipped line of the counterparty window, the one with the lowest index
\* among those of maximal length (empty when every line is skipped).
C10_LongestLowestIndex ==
    (pc = "tx_loop" /\ tx # NoTx) =>
        LET idx == i - 1
            cand(j) == TrimSpace(lines[j + 1])
            W == {j \in max(0, idx - PartnerWindow)..(idx - 2) :
                     ~PartnerSkip(cand(j))}
        IN  IF W = {} THEN tx.PartnerName = ""
            ELSE \E j \in W :
                    /\ tx.PartnerName = cand(j)
                    /\ \A k \in W :
                          /\ GoLen(cand(k)) <= GoLen(cand(j))
                          /\ GoLen(cand(k)) = GoLen(cand(j)) => j <= k

C10_Witness ==
    /\ pc = "tx_loop" /\ i = 4
    /\ lines[1] = "SUPERMARKET XYZ" /\ lines[2] = "SUPERMERCADO AB"
    /\ tx.PartnerName = "SUPERMARKET XYZ" /\ Len(transactions) = 1

\* the trimmed lines of the date window of the amount line at index idx
DateWindowLines(ls, idx) ==
    {TrimSpace(ls[j + 1]) : j \in max(0, idx - DateWindow)..(idx - 1)}

\* the record appended by the step, when the step appends one
Emits == Len(transactions') = Len(transactions) + 1
Emitted == transactions'[Len(transactions')]

\* C11: a record emitted for an amount line whose date window holds no line
\* with the phrase "Fecha de valor" has its ValueDate equal to its BookingDate.
C11_ValueDateDefaults ==
    [][(fn = "parseTransactionsFromText" /\ Emits) =>
          ((\A l \in DateWindowLines(lines, i) : ~Contains(l, "Fecha de valor"))
              => Emitted.ValueDate = Emitted.BookingDate)
      ]_vars

C11_Witness ==
    /\ TxDone /\ Len(transactions) = 1
    /\ \A k \in 1..Len(lines) : ~Contains(lines[k], "Fecha de valor")
    /\ \E k \in 1..Len(lines) : lines[k] = "04.10.2025"
    /\ transactions[1].BookingDate = "04.10.2025"
    /\ transactions[1].ValueDate = "04.10.2025"

\* the indices of the counterparty window of the amount line at index idx
\* whose lines the counterparty loop does not skip
PartnerCandidates(ls, idx) ==
    {j \in max(0, idx - PartnerWindow)..(idx - 2) :
        ~PartnerSkip(TrimSpace(ls[j + 1]))}

\* the step is the iteration of an amount line
AtAmountLine ==
    /\ fn = "parseTransactionsFromText" /\ pc = "tx_loop" /\ i < Len(lines)
    /\ FullLineAmount(TrimSpace(lines[i + 1]))

\* C12 (Scenario B): when the only non-skipped line of the counterparty window
\* of an amount line is a page-number line such as "1 / 3", the iteration of
\* that amount line emits no record, whatever dates the block holds.
C12_PageNumberRejected ==
    [][(AtAmountLine /\ i' = i + 1) =>
          \A j \in PartnerCandidates(lines, i) :
              (PartnerCandidates(lines, i) = {j}
                  /\ IsPageNumber(TrimSpace(lines[j + 1])))
                  => transactions' = transactions
      ]_vars

C12_Witness ==
    /\ fn = "parseTransactionsFromText" /\ pc = "tx_loop" /\ i = Len(lines)
    /\ PartnerCandidates(lines, i - 1) # {}
    /\ tx.PartnerName = "1 / 3" /\ tx.BookingDate = "05.10.2025"
    /\ tx.Amount = "-12,34" /\ transactions = <<>>

\* C13: the result only ever grows at its end, by the record of the amount
\* line of the current iteration, and the iterations visit the lines top to
\* bottom; so the records are in the order of their amount lines and are
\* never reordered.
C13_TextOrder ==
    [][fn = "parseTransactionsFromText" =>
          /\ i' >= i
          /\ \/ transactions' = transactions
             \/ /\ AtAmountLine /\ i' = i + 1 /\ Emits
                /\ SubSeq(transactions', 1, Len(transactions)) = transactions
                /\ Emitted.Amount = StripAmount(TrimSpace(lines[i + 1]))
      ]_vars

C13_Witness ==
    /\ TxDone /\ Len(transactions) = 2
    /\ lines[3] = "-12,34" \o Euro /\ lines[4] = "+3,00 " \o Euro
    /\ transactions[1].Amount = "-12,34" /\ transactions[2].Amount = "+3,00"

\* d has the shape DD.MM.YYYY
DateShape(d) ==
    /\ Len(d) = 10
    /\ \A k \in 1..10 : IF k \in {3, 6} THEN Ch(d, k) = "." ELSE IsDigit(Ch(d, k))

\* a is an optional sign, one or more digits, a comma and two digits
AmountShape(a) ==
    LET first == IF Ch(a, 1) \in {"+", "-"} THEN 2 ELSE 1
    IN  /\ Len(a) >= first + 3
        /\ Ch(a, Len(a) - 2) = ","
        /\ \A k \in first..Len(a) : k # Len(a) - 2 => IsDigit(Ch(a, k))

\* C14: every record of the result has a BookingDate and a ValueDate of the
\* shape DD.MM.YYYY (so neither is empty) and an Amount that is an optionally
\* signed number with a comma and exactly two fractional digits, without
\* currency symbol or whitespace.
C14_RecordInvariant ==
    fn = "parseTransactionsFromText" =>
        \A k \in 1..Len(transactions) :
            /\ DateShape(transactions[k].BookingDate)
            /\ DateShape(transactions[k].ValueDate)
            /\ AmountShape(transactions[k].Amount)

C14_Witness ==
    /\ TxDone /\ Len(transactions) = 1
    /\ \E k \in 1..Len(lines) : lines[k] = "+3,00 " \o Euro
    /\ transactions[1].Amount = "+3,00"
    /\ transactions[1].BookingDate = "05.10.2025"
    /\ transactions[1].ValueDate = "06.10.2025"

\* the indices of the amount lines of ls whose block is accepted
AcceptedLines(ls) ==
    {k \in 0..(Len(ls) - 1) :
        /\ FullLineAmount(TrimSpace(ls[k + 1]))
        /\ Accepted(BuildTx(ls, k))}

\* C15: parseTransactionsFromText returns no error for any text, and the
\* result is empty exactly when no block is accepted; it is empty for the
\* empty text.
C15_NeverFails ==
    TxDone =>
        /\ err = ""
        /\ transactions = <<>> <=> AcceptedLines(lines) = {}
        /\ text = "" => transactions = <<>>

C15_Witness ==
    TxDone /\ text = "" /\ lines = <<"">> /\ transactions = <<>> /\ err = ""

-----------------------------------------------------------------------------
(* Properties of ExtractText *)

\* the number of characters before the text of page k (1-based) in the
\* concatenation of the pages of d with one newline between consecutive pages
RECURSIVE PageOffset(_, _)
PageOffset(d, k) ==
    IF k <= 1 THEN 0 ELSE PageOffset(d, k - 1) + Len(d[k - 1].text) + 1

\* C17: a successful ExtractText has read every page once, in page order, and
\* returns their texts in page order with exactly one newline between
\* consecutive pages and nothing after the last; for no pages it returns "".
C17_Concatenation ==
    (epc = "done" /\ extractErr = "") =>
        LET n == Len(doc)
        IN  /\ pagesRead = [k \in 1..n |-> k - 1]
            /\ n = 0 => extractedText = ""
            /\ n > 0 =>
                  Len(extractedText) = PageOffset(doc, n) + Len(doc[n].text)
            /\ \A k \in 1..n :
                  SubSeq(extractedText, PageOffset(doc, k) + 1,
                         PageOffset(doc, k) + Len(doc[k].text)) = doc[k].text
            /\ \A k \in 2..n : Ch(extractedText, PageOffset(doc, k)) = "\n"

C17_Witness ==
    /\ epc = "done" /\ extractErr = "" /\ Len(doc) = 3
    /\ doc[1].text = "1,00 " \o Euro \o "\n" /\ doc[2].text = ""
    /\ doc[3].text = "Tu nuevo saldo"
    /\ extractedText = "1,00 " \o Euro \o "\n\n\nTu nuevo saldo"

\* C18: when doc.Text fails on a page, ExtractText returns the empty string
\* and an error that names the number of that page (counted from 1); the pages
\* read are exactly those up to the failing one, none after it.
C18_AllOrNothing ==
    (epc = "done" /\ extractErr # "") =>
        \E k \in 1..Len(doc) :
            /\ ~doc[k].ok
            /\ \A m \in 1..(k - 1) : doc[m].ok
            /\ extractErr = "failed to extract text from page " \o Itoa(k)
            /\ extractedText = ""
            /\ pagesRead = [m \in 1..k |-> m - 1]

C18_Witness ==
    /\ epc = "done" /\ Len(doc) = 3 /\ doc[1].ok /\ doc[1].text # ""
    /\ ~doc[2].ok /\ doc[3].ok
    /\ extractErr = "failed to extract text from page 2"
    /\ extractedText = "" /\ textBuilder # "" /\ pagesRead = <<0, 1>>

-----------------------------------------------------------------------------
(* Properties of the program runs *)

RunEnded == rpc = "idle" /\ run > 0

\* C3 as stated: whatever the state-store calls do, no statement key is part
\* of more than one delivered notification.
C3_NeverNotifiedTwice == \A k \in Keys : delivered[k] <= 1

\* C3 amended: as long as every run has run to completion and no state-store
\* call (IsNotified, MarkMultipleAsNotified) has failed, no statement key is part
\* of more than one delivered notification, and the keys of every delivered
\* notification are marked once its run has ended.
C3_NoDuplicateWhileStoreWorks ==
    ~storeFailed =>
        /\ \A k \in Keys : delivered[k] <= 1
        /\ RunEnded => \A k \in Keys : delivered[k] > 0 => k \in notifiedStore

C3_Witness ==
    /\ RunEnded /\ ~storeFailed /\ result = "no new statements"
    /\ \E k \in Keys : delivered[k] = 1

\* C4: a run that logs in successfully (no usable stored cookie) goes on to
\* download the statement (and then to parse, filter and notify) before it ends.
C4_LoginRunDownloads ==
    (RunEnded /\ loggedIn) => downloaded

\* the PDF parser was opened in this run
Opened == downloaded /\ webhookURL /\ pdf.opens /\ rpc # "notify"

\* C19: in a run of sendDiscordNotification, Close is called at most once and
\* not while the function is still running; when the function has returned,
\* Close has been called exactly once if the parser had been opened, on
\* whichever path the function returned, and not at all otherwise.
C19_CloseExactlyOnce ==
    /\ closeCount <= 1
    /\ parserOpen => (Opened /\ closeCount = 0 /\ rpc # "idle")
    /\ RunEnded =>
          /\ ~parserOpen
          /\ closeCount = IF Opened THEN 1 ELSE 0

C19_Witness ==
    /\ RunEnded /\ Opened /\ result = "warning: webhook status 500"
    /\ closeCount = 1 /\ ~parserOpen

\* performLoginAndGetCookie has been called in this run
LoginPerformed == loggedIn \/ result = "fatal: login failed"

\* C20: a run performs a login (and then saves a cookie) only if no cookie was
\* read from the store, so that the endpoint was not called, or if the endpoint
\* call was classified as unauthorized; after an accepted cookie the run neither
\* logs in nor saves a cookie, and after any other endpoint failure the run
\* has ended without login and without save.
C20_LoginOnlyWhenNeeded ==
    /\ (LoginPerformed \/ rpc = "save_cookie") =>
           /\ endpointOutcome \in {"", "unauthorized"}
           /\ ~cookieHeader
    /\ endpointOutcome = "pdf" =>
           ~LoginPerformed /\ rpc \notin {"login", "save_cookie"}
    /\ endpointOutcome = "error" =>
           /\ ~LoginPerformed /\ rpc = "idle"
           /\ result = "fatal: failed to call endpoint"
    /\ (endpointOutcome = "" /\ rpc \in {"login", "save_cookie"}) => ~cookieHeader

C20_Witness ==
    /\ RunEnded /\ endpointOutcome = "unauthorized" /\ loggedIn
    /\ result = "login completed" /\ ~downloaded

\* the results of sendDiscordNotification that precede the balance step
EarlyResults ==
    {"warning: WEBHOOK_URL is not set", "warning: failed to create PDF parser",
     "warning: failed to extract PDF text",
     "warning: failed to parse PDF transactions",
     "warning: PDF has no transaction data"}

\* the results of sendDiscordNotification that follow the filter loop
LateResults ==
    {"no new statements", "warning: webhook error",
     "warning: webhook status 500", "notified"}

\* C21: a failing ParseBalance never ends sendDiscordNotification: once the
\* transactions are parsed and non-empty, the balance is the parsed one or the
\* sentinel "N/A" (always "N/A" when the text holds no balance), the filter
\* loop follows, and the run ends only as the filter and the webhook decide.
C21_BalanceFailureRecoverable ==
    /\ rpc \in {"filter", "mark"} =>
           /\ accountBalance \in {pdf.balance, "N/A"} /\ accountBalance # ""
           /\ pdf.balance = "" => accountBalance = "N/A"
    /\ (RunEnded /\ downloaded) =>
           \/ result \in EarlyResults /\ accountBalance = ""
           \/ /\ result \in LateResults
              /\ accountBalance \in {pdf.balance, "N/A"} /\ accountBalance # ""
              /\ pdf.balance = "" => accountBalance = "N/A"

C21_Witness ==
    /\ RunEnded /\ result = "notified" /\ pdf.balance = ""
    /\ accountBalance = "N/A" /\ Len(sent) > 0

-----------------------------------------------------------------------------
(* Properties of waitFor2FAConfirmation *)

WaitReturned == wpc = "done"

\* C22: waitFor2FAConfirmation returns nil only when a poll has read a URL
\* without "/login", and that before the 60 seconds are over; when it returns
\* without such a poll it returns the timeout error; and it always returns.
C22_TwoFAWait ==
    /\ [](WaitReturned /\ waitErr = "" =>
            /\ seenConfirmed /\ currentURL # ""
            /\ ~Contains(currentURL, "/login")
            /\ now < TwoFATimeout)
    /\ [](WaitReturned /\ ~seenConfirmed => waitErr = ErrTwoFATimeout)
    /\ <>WaitReturned

C22_Witness ==
    /\ WaitReturned /\ waitErr = "" /\ seenConfirmed /\ currentURL = AppURL
    /\ now = TwoFATimeout - TickPeriod

\* the indices of the date window of the amount line at index idx whose
\* trimmed lines can supply the booking date: no "Fecha de valor", a date, and
\* fewer than 20 bytes
BookingLines(ls, idx) ==
    {j \in max(0, idx - DateWindow)..(idx - 1) :
        LET l == TrimSpace(ls[j + 1])
        IN  /\ ~Contains(l, "Fecha de valor")
            /\ DateMatch(l)
            /\ GoLen(l) < StandaloneDateLen}

\* the block of the last iteration, when that iteration was one of an amount line
AfterAmountLine ==
    fn = "parseTransactionsFromText" /\ pc = "tx_loop" /\ tx # NoTx

\* C23: after the iteration of an amount line at index idx, BookingDate is the
\* first date of the lowest-indexed line of [max(0, idx-10), idx) that has no
\* "Fecha de valor", holds a date and is shorter than 20 (a later such line
\* does not replace it), and is empty when there is no such line; and the
\* result never holds more records than there were amount lines with such a
\* line in their window, so a block without one emits no record.
C23_BookingDate ==
    /\ AfterAmountLine =>
          LET Q == BookingLines(lines, i - 1)
          IN  IF Q = {} THEN tx.BookingDate = ""
              ELSE tx.BookingDate = FirstDate(TrimSpace(lines[MinOf(Q) + 1]))
    /\ fn = "parseTransactionsFromText" /\ pc \in {"tx_loop", "done"} =>
          Len(transactions) <=
              Cardinality({k \in 0..(i - 1) :
                              /\ FullLineAmount(TrimSpace(lines[k + 1]))
                              /\ BookingLines(lines, k) # {}})

C23_Witness ==
    /\ AfterAmountLine /\ i = LongLen
    /\ lines[LongLen - DateWindow - 1] = "04.10.2025"
    /\ lines[LongLen - DateWindow] = "04.10.2025"
    /\ lines[LongLen - 5] = "05.10.2025"
    /\ BookingLines(lines, i - 1) = {LongLen - DateWindow - 1, LongLen - 6}
    /\ tx.BookingDate = "04.10.2025" /\ Len(transactions) = 1

MaxOf(S) == CHOOSE k \in S : \A m \in S : m <= k

\* the indices of the date window of the amount line at index idx whose
\* trimmed lines hold "Fecha de valor" and a date
ValueLines(ls, idx) ==
    {j \in max(0, idx - DateWindow)..(idx - 1) :
        LET l == TrimSpace(ls[j + 1])
        IN  Contains(l, "Fecha de valor") /\ DateMatch(l)}

\* the last iteration appended its block to the result
JustEmitted == AfterAmountLine /\ Accepted(tx)

\* the value date of the record is the first date of the last "Fecha de valor"
\* line of the window, or the booking date when the window has none
ValueDateResolved ==
    JustEmitted =>
        LET V == ValueLines(lines, i - 1)
        IN  IF V = {} THEN tx.ValueDate = tx.BookingDate
            ELSE tx.ValueDate = FirstDate(TrimSpace(lines[MaxOf(V) + 1]))

C25_PartnerWindow ==
    JustEmitted =>
        LET idx == i - 1
        IN  /\ \E j \in max(0, idx - PartnerWindow)..(idx - 2) :
                  tx.PartnerName = TrimSpace(lines[j + 1])
            /\ BuildTx(SubSeq(lines, 1, idx + 1), idx).PartnerName = tx.PartnerName
            /\ idx >= 2

C25_Witness ==
    /\ JustEmitted /\ i = LongLen
    /\ lines[LongLen - PartnerWindow - 1] = LongPartner
    /\ lines[LongLen - PartnerWindow] = "Bar"
    /\ lines[LongLen - 2] = ""
    /\ lines[LongLen - 1] = LongPartner
    /\ tx.PartnerName = "Bar"

\* the header and balance words that isRealTransaction rejects in any case
RejectedWords ==
    {"Saldo", "Balance", "Emitido", "Descripción", "Fecha de reserva",
     "Cantidad", "Actividad de la cuenta"}

\* C26: the PartnerName of every record of the result is trimmed, has length
\* at least 3, holds no date and no amount, holds none of the skip words of the
\* counterparty window, holds none of the header and balance words in any
\* letter case, and is not a page number "N / M".
C26_PartnerFiltered ==
    fn = "parseTransactionsFromText" =>
        \A k \in 1..Len(transactions) :
            LET p == transactions[k].PartnerName
            IN  /\ TrimSpace(p) = p
                /\ GoLen(p) >= 3
                /\ ~DateMatch(p)
                /\ ~AmountMatch(p)
                /\ \A w \in SkipWords : ~Contains(p, w)
                /\ \A w \in RejectedWords : ~Contains(ToLower(p), ToLower(w))
                /\ ~IsPageNumber(p)

C26_Witness ==
    /\ TxDone /\ Len(lines) = LongLen /\ Len(transactions) = 1
    /\ lines[LongLen - PartnerWindow] = "Bar"
    /\ lines[LongLen - 5] = "05.10.2025"
    /\ lines[LongLen - 2] = ""
    /\ transactions[1].PartnerName = "Bar"

\* the results of a run whose notification was not delivered
UndeliveredResults ==
    {"warning: WEBHOOK_URL is not set", "warning: webhook error",
     "warning: webhook status 500"}

\* the store changes only in the marking step, which follows a 2xx answer to
\* the notification of this run
MarkOnlyAfterDelivery ==
    /\ notifiedStore' # notifiedStore =>
          /\ rpc = "mark" /\ webhookURL
          /\ sent # <<>> /\ sent = newStatements
    /\ result' \in UndeliveredResults => notifiedStore' = notifiedStore

\* C27 as stated: statements are marked only after the webhook returned 2xx,
\* the marking step marks exactly the keys of the notification, and a run
\* without a delivered notification leaves the notified keys unchanged.
C27_NotifyThenMark_AsStated ==
    [][/\ MarkOnlyAfterDelivery
       /\ rpc = "mark" /\ rpc' # "mark" =>
             notifiedStore' = notifiedStore \cup RangeOf(sent)
      ]_vars

\* C27 (amended): statements are marked only after the webhook returned 2xx;
\* the marking step marks the keys of a prefix of the notification and no
\* other key, all of them when no statement of the store fails; and a run
\* without a delivered notification leaves the notified keys unchanged.
C27_NotifyThenMark ==
    [][/\ MarkOnlyAfterDelivery
       /\ rpc = "mark" /\ rpc' # "mark" =>
             /\ \E n \in 0..Len(sent) :
                   notifiedStore' =
                       notifiedStore \cup {sent[k] : k \in 1..n}
             /\ ~storeFailed' =>
                   notifiedStore' = notifiedStore \cup RangeOf(sent)
      ]_vars

C27_Witness ==
    /\ run = 1 /\ result = "notified" /\ rpc = "idle"
    /\ Len(sent) = 2 /\ sent[1] # sent[2]
    /\ notifiedStore = {sent[1]}

\* every transaction of the document is marked as notified in the store
AllMarked ==
    \A k \in 1..Len(pdf.txs) : KeyOf(pdf.txs[k]) \in notifiedStore

\* the loop over the transactions has finished
FilterDone == rpc = "filter" /\ txIdx = Len(pdf.txs)

\* the step sends the webhook request (whatever the answer)
WebhookRequested ==
    /\ FilterDone
    /\ \/ rpc' = "mark"
       \/ result' \in {"warning: webhook error", "warning: webhook status 500"}

\* the step returns nil without a request and without a store write
SkipsNotification ==
    /\ rpc' = "idle" /\ result' = "no new statements"
    /\ notifiedStore' = notifiedStore
    /\ sent' = sent /\ delivered' = delivered

\* C28 as stated: when every parsed transaction is marked as notified, no
\* webhook request is sent, the store is unchanged and the call succeeds; and
\* a request is sent only when there is a new statement.
C28_SkipWhenAllNotified_AsStated ==
    [][/\ FilterDone /\ AllMarked => SkipsNotification
       /\ WebhookRequested => newStatements # <<>>
      ]_vars

\* C28 (amended): when every parsed transaction is marked as notified and
\* every IsNotified call of the run succeeded, no webhook request is sent, the
\* store is unchanged and the call succeeds; a request is sent only when
\* newStatements is not empty, and each of its statements is unmarked or is
\* one whose IsNotified call failed.
C28_SkipWhenAllNotified ==
    [][/\ FilterDone /\ AllMarked /\ checkFailed = {} => SkipsNotification
       /\ WebhookRequested =>
             /\ newStatements # <<>>
             /\ \A key \in RangeOf(newStatements) :
                   \E k \in 1..Len(pdf.txs) :
                      /\ KeyOf(pdf.txs[k]) = key
                      /\ key \notin notifiedStore \/ k \in checkFailed
      ]_vars

C28_Witness ==
    /\ run = 2 /\ rpc = "idle" /\ result = "no new statements"
    /\ Len(pdf.txs) = 2 /\ AllMarked /\ checkFailed = {}
    /\ newStatements = <<>> /\ sent = <<>>

\* C29: a statement whose IsNotified call returned an error is in
\* newStatements, and so in the notification when it is delivered; the failing
\* call does not end the loop; and after a loop with a failed call the
\* webhook request is made.
C29_FailOpen ==
    /\ [](rpc \in {"filter", "mark"} =>
             \A k \in checkFailed : KeyOf(pdf.txs[k]) \in RangeOf(newStatements))
    /\ [](rpc = "mark" =>
             \A k \in checkFailed : KeyOf(pdf.txs[k]) \in RangeOf(sent))
    /\ [][/\ checkFailed' # checkFailed /\ rpc = "filter" =>
                rpc' = "filter" /\ txIdx' = txIdx + 1 /\ result' = result
          /\ FilterDone /\ checkFailed # {} /\ rpc' # rpc => WebhookRequested
         ]_vars

C29_Witness ==
    /\ rpc = "mark" /\ checkFailed = {1}
    /\ KeyOf(pdf.txs[1]) \in notifiedStore
    /\ sent = <<KeyOf(pdf.txs[1])>>

\* the call has returned an error for an HTTP 401 response, or for a JSON body
\* that says status 401 or error "invalid_token"
UnauthorizedResponse ==
    /\ response.fail = ""
    /\ response.status = 401 \/ JSONUnauthorized(response.body)

\* C30 as stated: main goes on to the login for every error returned for an
\* HTTP 401 response or for a JSON body saying status 401 or "invalid_token",
\* whatever the body holds, and aborts for every other error.
C30_UnauthorizedClassification ==
    cpc = "done" /\ callErr # "" =>
        IF UnauthorizedResponse THEN branch = "login" ELSE branch = "fatal"

\* waitForNetworkIdle has returned
IdleReturned == ipc = "done"

\* C31 as stated: when waitForNetworkIdle returns nil, the number of requests
\* in flight was at most maxConnections during the whole idleDuration before
\* the return, whatever the order of the listener's events and the loop's steps.
C31_IdleGuarantee ==
    IdleReturned /\ idleErr = "" /\ nowMs - idleSince = IdleDuration =>
        ~overSinceIdle

\* C32: waitForNetworkIdle returns in every execution; what it returns is nil,
\* the timeout error, which comes only after maxWait, or the error of the
\* context, which comes only when it is cancelled; and it returns at the
\* first check after maxWait at the latest, also when requests never finish.
C32_IdleTerminates ==
    /\ <>IdleReturned
    /\ [](IdleReturned =>
             /\ idleErr \in {"", ErrIdleTimeout, ErrCanceled}
             /\ idleErr = ErrIdleTimeout => nowMs > MaxWait
             /\ idleErr = ErrCanceled => ctxCancelled)
    /\ [](ipc # "idle" => nowMs <= MaxWait + CheckInterval)

C32_Witness ==
    /\ IdleReturned /\ idleErr = ErrIdleTimeout
    /\ activeRequests = {"r1"} /\ maxConnections = 0 /\ ~ctxCancelled
    /\ nowMs = MaxWait + CheckInterval

====
